---------------------------- MODULE Spec2Model ----------------------------
(***************************************************************************)
(* A model of the ETF-Dashboard analytics core: the IV history store, the  *)
(* option symbol parser, the IV rank, the HTTP endpoints of app.py and the *)
(* snapshot caches of app.py and sector_dashboard.py.                      *)
(*                                                                         *)
(* Text is modelled as sequences of one-character strings, so that         *)
(* upper(), strftime(), strptime(), int() and string comparison are        *)
(* computed character by character, as the library computes them.          *)
(* Real numbers are modelled as integers (IV and price readings), as       *)
(* decimals [whole, thousandths] (strikes) or as exact rationals           *)
(* [num, den] (results of a division).                                     *)
(***************************************************************************)
EXTENDS Integers, Sequences, FiniteSets, TLC

VARIABLES
    today,      \* datetime.now(), as the calendar date <<year, month, day>>
    store,      \* the rows of table iv_history: [symbol, date, iv30, price]
    latest,     \* history variable: key <<symbol, date>> -> the last reading recorded for it
    nrec,       \* number of save_iv30 calls so far
    call,       \* the last store call: its function and arguments
    ret,        \* what the last store call returned
    ident,      \* the identifier handed to parse_option_symbol
    parsed,     \* what parse_option_symbol did with it
    current,    \* the first argument of calc_iv_rank
    history,    \* the second argument of calc_iv_rank: rows <<date, iv30>>
    rank,       \* what calc_iv_rank did with them
    percentile, \* what calc_iv_percentile did with them
    workers,    \* the request each server thread is handling, and its response
    clock,      \* time.time(): the seconds, and the steps the clock has made
    _chart_cache,           \* app.py: (ticker, interval) -> {"data", "fetched_at"}
    _signals_cache,         \* app.py: {"data", "fetched_at"}
    _holdings_cache,        \* app.py: ticker -> {"data", "fetched_at"}
    dashboard_chart_cache,  \* sector_dashboard.py _chart_cache: (ticker, interval) -> records
    served,     \* the last request to a cached endpoint: its number, reads and response
    prob,       \* the arguments of prob_itm and prob_profit, and what they returned
    signal,     \* the indicators of one instrument, and the scores computed from them
    regime,     \* the momentum of the instruments of both risk classes, and the label
    callers,    \* the overlapping calls that read a cache: each one's position and result
    contract,   \* one contract of a chain, and the rows the web app and the analyzer make of it
    series,     \* a close series handed to _calc_rsi, and what it returned
    bars,       \* the price bars of one instrument, and the flow computed from them
    twin        \* one helper called in app.py and in options_analyzer.py on the same arguments

storeVars == <<today, store, latest, nrec, call, ret>>

codecVars == <<ident, parsed>>

rankVars == <<current, history, rank, percentile>>

httpVars == <<workers>>

cacheVars == <<clock, _chart_cache, _signals_cache, _holdings_cache,
               dashboard_chart_cache, served>>

\* What the store's operations leave alone.
calcVars == <<prob, signal, regime, contract, series, bars, twin>>

raceVars == <<callers>>

nonStoreVars == <<codecVars, rankVars, httpVars, cacheVars, calcVars, raceVars>>

vars == <<storeVars, codecVars, rankVars, httpVars, cacheVars, calcVars, raceVars>>

None == "None"

-----------------------------------------------------------------------------
(* Characters and strings                                                  *)

DigitChars == <<"0", "1", "2", "3", "4", "5", "6", "7", "8", "9">>

UpperLetters ==
    <<"A", "B", "C", "D", "E", "F", "G", "H", "I", "J", "K", "L", "M",
      "N", "O", "P", "Q", "R", "S", "T", "U", "V", "W", "X", "Y", "Z">>

LowerLetters ==
    <<"a", "b", "c", "d", "e", "f", "g", "h", "i", "j", "k", "l", "m",
      "n", "o", "p", "q", "r", "s", "t", "u", "v", "w", "x", "y", "z">>

\* The characters of the model in code-point order ("-" < digits < A-Z < a-z).
CodePoints == <<"-">> \o DigitChars \o UpperLetters \o LowerLetters

Range(s) == {s[i] : i \in 1..Len(s)}

IsDigit(c) == c \in Range(DigitChars)

IsUpperLetter(c) == c \in Range(UpperLetters)

DigitVal(c) == (CHOOSE i \in 1..10 : DigitChars[i] = c) - 1

Ord(c) == CHOOSE i \in 1..Len(CodePoints) : CodePoints[i] = c

\* str.upper(), one character
UpperChar(c) ==
    IF c \in Range(LowerLetters)
    THEN UpperLetters[CHOOSE i \in 1..26 : LowerLetters[i] = c]
    ELSE c

\* str.upper()
upper(s) == [i \in 1..Len(s) |-> UpperChar(s[i])]

\* Comparison of two TEXT values (SQLite's BINARY collation, memcmp order).
StrLess(a, b) ==
    \E k \in 1..(Len(b)) :
        /\ \A i \in 1..(k - 1) : i <= Len(a) /\ a[i] = b[i]
        /\ \/ k = Len(a) + 1
           \/ k <= Len(a) /\ Ord(a[k]) < Ord(b[k])

\* A number as `w` decimal digits, zero padded (%Y, %m, %d of strftime).
RECURSIVE ZeroPad(_, _)
ZeroPad(n, w) ==
    IF w = 0 THEN <<>>
    ELSE Append(ZeroPad(n \div 10, w - 1), DigitChars[(n % 10) + 1])

\* int(): a string of decimal digits as a number
RECURSIVE int(_)
int(s) ==
    IF Len(s) = 0 THEN 0
    ELSE 10 * int(SubSeq(s, 1, Len(s) - 1)) + DigitVal(s[Len(s)])

-----------------------------------------------------------------------------
(* Calendar dates                                                          *)

IsLeap(y) == (y % 4 = 0 /\ y % 100 # 0) \/ y % 400 = 0

DaysInMonth(y, m) ==
    IF m = 2 THEN (IF IsLeap(y) THEN 29 ELSE 28)
    ELSE IF m \in {4, 6, 9, 11} THEN 30 ELSE 31

\* The day after a date (the wall clock passing midnight).
NextDate(d) ==
    IF d[3] < DaysInMonth(d[1], d[2]) THEN <<d[1], d[2], d[3] + 1>>
    ELSE IF d[2] < 12 THEN <<d[1], d[2] + 1, 1>>
    ELSE <<d[1] + 1, 1, 1>>

\* Chronological order of two dates.
DateBefore(a, b) ==
    \/ a[1] < b[1]
    \/ a[1] = b[1] /\ a[2] < b[2]
    \/ a[1] = b[1] /\ a[2] = b[2] /\ a[3] < b[3]

\* strftime("%Y-%m-%d")
strftime_Ymd(d) ==
    ZeroPad(d[1], 4) \o <<"-">> \o ZeroPad(d[2], 2) \o <<"-">> \o ZeroPad(d[3], 2)

-----------------------------------------------------------------------------
(* IV History Store: table iv_history, PRIMARY KEY (symbol, date)          *)

MaxDays == 1        \* midnights the model lets pass
MaxRecords == 3     \* save_iv30 calls the model lets happen
MaxLookback == 1    \* largest explicit `days` argument of a query

DefaultDays == 252

StartDate == <<2026, 12, 31>>

RECURSIVE AddDays(_, _)
AddDays(d, n) == IF n = 0 THEN d ELSE AddDays(NextDate(d), n - 1)

\* The last date the model's clock reaches, and the dates it passes through.
LastDate == AddDays(StartDate, MaxDays)

Calendar == {AddDays(StartDate, n) : n \in 0..MaxDays}

\* The tickers callers pass, in the case they pass them.
Tickers == { <<"s", "p", "y">>, <<"S", "P", "Y">>, <<"Q", "Q", "Q">> }

\* (iv30, price) of a quote.
Readings == { <<18, 100>>, <<25, 105>> }

RowsOf(st, sym) == {r \in st : r.symbol = sym}

\* INSERT without the conflict clause: the row is added beside the old one.
InsertKeepingOld(st, row) == st \cup {row}

\* An upsert that keeps the price of the row it replaces.
InsertMergingPrice(st, row) ==
    LET old == {r \in st : r.symbol = row.symbol /\ r.date = row.date}
    IN  (st \ old) \cup
        { IF old = {} THEN row ELSE [row EXCEPT !.price = (CHOOSE r \in old : TRUE).price] }

\* INSERT OR REPLACE: the rows that conflict on the primary key are deleted,
\* then the new row is inserted.
InsertOrReplace(st, row) ==
    {r \in st : ~(r.symbol = row.symbol /\ r.date = row.date)} \cup {row}

\* save_iv30 that files the row under the symbol as it was given.
save_iv30_as_given(st, now, symbol, iv30, price) ==
    InsertOrReplace(st, [symbol |-> symbol, date |-> strftime_Ymd(now),
                         iv30 |-> iv30, price |-> price])

\* save_iv30(conn, symbol, iv30, price), run when the clock shows `now`
save_iv30(st, now, symbol, iv30, price) ==
    InsertOrReplace(st, [symbol |-> upper(symbol), date |-> strftime_Ymd(now),
                         iv30 |-> iv30, price |-> price])

\* ORDER BY date ASC: the rows oldest first
RECURSIVE OrderByDateAsc(_)
OrderByDateAsc(rows) ==
    IF rows = {} THEN <<>>
    ELSE LET first == CHOOSE r \in rows : \A o \in rows : ~StrLess(o.date, r.date)
         IN  <<first>> \o OrderByDateAsc(rows \ {first})

\* ORDER BY date DESC
RECURSIVE OrderByDateDesc(_)
OrderByDateDesc(rows) ==
    IF rows = {} THEN <<>>
    ELSE LET first == CHOOSE r \in rows : \A o \in rows : ~StrLess(r.date, o.date)
         IN  <<first>> \o OrderByDateDesc(rows \ {first})

\* LIMIT n (a negative n is no limit in SQLite)
Limit(rows, n) ==
    IF n < 0 \/ n >= Len(rows) THEN rows ELSE SubSeq(rows, 1, n)

\* get_iv_history(conn, symbol, days): SELECT date, iv30 ... WHERE symbol=?
\* ORDER BY date DESC LIMIT ?
get_iv_history(st, symbol, days) ==
    LET rows == Limit(OrderByDateDesc(RowsOf(st, upper(symbol))), days)
    IN  [i \in 1..Len(rows) |-> <<rows[i].date, rows[i].iv30>>]

\* get_iv_history(conn, symbol): days takes its default
get_iv_history_default(st, symbol) == get_iv_history(st, symbol, DefaultDays)

StoreInit ==
    /\ today = StartDate
    /\ store = {}
    /\ latest = << >>
    /\ nrec = 0
    /\ call = [fn |-> "init"]
    /\ ret = None

\* The parser and the rank function before anything was handed to them.
CodecIdle == ident = <<>> /\ parsed = [kind |-> "idle"]

RankIdle ==
    /\ current = 0
    /\ history = <<>>
    /\ rank = [kind |-> "idle"]
    /\ percentile = [kind |-> "idle"]

RECURSIVE DaysBeforeMonth(_, _)
DaysBeforeMonth(y, m) ==
    IF m = 1 THEN 0 ELSE DaysBeforeMonth(y, m - 1) + DaysInMonth(y, m - 1)

\* date.toordinal()
Ordinal(d) ==
    LET y == d[1] - 1
    IN  y * 365 + (y \div 4) - (y \div 100) + (y \div 400)
        + DaysBeforeMonth(d[1], d[2]) + d[3]

\* time.time() when the server starts: the seconds from 1970-01-01 to the
\* midnight that starts StartDate.
StartTime == (Ordinal(StartDate) - Ordinal(<<1970, 1, 1>>)) * 86400

\* A dict without the key, or a value that is None.
Nothing == [kind |-> "None"]

\* The caches as the modules create them.
CacheIdle ==
    /\ clock = [now |-> StartTime, ticks |-> 0]
    /\ _chart_cache = <<>>
    /\ _signals_cache = [data |-> Nothing, fetched_at |-> 0]
    /\ _holdings_cache = <<>>
    /\ dashboard_chart_cache = <<>>
    /\ served = [route |-> None, seq |-> 0]

\* No probability, score or label computed yet.
ProbIdle == prob = [kind |-> "idle"]

ScoreIdle == signal = [kind |-> "idle"]

RegimeIdle == regime = [kind |-> "idle"]

Callers == {"c1", "c2"}

IdleCaller ==
    [pc |-> "idle", route |-> None, key |-> <<>>, missed |-> FALSE, now |-> 0,
     kind |-> None, value |-> Nothing, stored |-> Nothing]

RaceIdle == callers = [c \in Callers |-> IdleCaller]

ContractIdle == contract = [kind |-> "idle"]

SeriesIdle == series = [kind |-> "idle"]

BarsIdle == bars = [kind |-> "idle"]

TwinIdle == twin = [kind |-> "idle"]

CalcIdle == ProbIdle /\ ScoreIdle /\ RegimeIdle /\ RaceIdle /\ TwinIdle /\ BarsIdle /\ SeriesIdle /\ ContractIdle

\* The web server before any request.
Threads == {"t1", "t2"}

IdleThread ==
    [pc |-> "idle", route |-> None, ticker |-> <<>>, upstream |-> None,
     fetched |-> <<>>, outcome |-> None, quote |-> <<>>, chain |-> <<>>,
     late |-> FALSE, status |-> 0, body |-> [kind |-> "None"]]

HttpIdle == workers = [w \in Threads |-> IdleThread]

\* A caller records a reading (api_quote, analyze_options).
Record(symbol, reading) ==
    /\ nrec < MaxRecords
    /\ store' = save_iv30(store, today, symbol, reading[1], reading[2])
    /\ latest' = (<<upper(symbol), strftime_Ymd(today)>> :> reading) @@ latest
    /\ nrec' = nrec + 1
    /\ call' = [fn |-> "save_iv30", symbol |-> symbol, reading |-> reading]
    /\ ret' = None
    /\ UNCHANGED <<today, nonStoreVars>>

\* A caller queries the history with an explicit lookback.
Query(symbol, days) ==
    /\ call' = [fn |-> "get_iv_history", symbol |-> symbol, days |-> days]
    /\ ret' = get_iv_history(store, symbol, days)
    /\ UNCHANGED <<today, store, latest, nrec, nonStoreVars>>

\* A caller queries the history with the default lookback.
QueryDefault(symbol) ==
    /\ call' = [fn |-> "get_iv_history_default", symbol |-> symbol, days |-> DefaultDays]
    /\ ret' = get_iv_history_default(store, symbol)
    /\ UNCHANGED <<today, store, latest, nrec, nonStoreVars>>

\* Midnight passes: datetime.now() shows the next calendar day.
Midnight ==
    /\ DateBefore(today, LastDate)
    /\ today' = NextDate(today)
    /\ UNCHANGED <<store, latest, nrec, call, ret, nonStoreVars>>

Next ==
    \/ \E s \in Tickers, r \in Readings : Record(s, r)
    \/ \E s \in Tickers, d \in 0..MaxLookback : Query(s, d)
    \/ \E s \in Tickers : QueryDefault(s)
    \/ Midnight

Init == StoreInit /\ CodecIdle /\ RankIdle /\ HttpIdle /\ CacheIdle /\ CalcIdle

Spec == Init /\ [][Next]_vars

-----------------------------------------------------------------------------
(* Claims about the IV History Store                                       *)

KeyOf(r) == <<r.symbol, r.date>>

\* The calendar date a stored date string stands for.
DateOfString(str) == CHOOSE d \in Calendar : strftime_Ymd(d) = str

OnePerKey == \A r1, r2 \in store : KeyOf(r1) = KeyOf(r2) => r1 = r2

HoldsLatest ==
    /\ \A r \in store : KeyOf(r) \in DOMAIN latest
    /\ \A k \in DOMAIN latest :
          \E r \in store : KeyOf(r) = k /\ <<r.iv30, r.price>> = latest[k]

RecordAgainChangesNothing ==
    \A s \in Tickers, rd \in Readings :
        ( /\ Record(s, rd)
          /\ \E r \in store : /\ KeyOf(r) = <<upper(s), strftime_Ymd(today)>>
                              /\ <<r.iv30, r.price>> = rd )
        => store' = store

\* C1: after any sequence of record operations the store holds at most one
\* reading per (symbol, date), that reading is the iv30 and price of the most
\* recent record for the key, and recording a reading the store already holds
\* for the key leaves the store unchanged.
C1_UpsertPerKey ==
    /\ [](OnePerKey /\ HoldsLatest)
    /\ [][RecordAgainChangesNothing]_vars

\* C1 witness: three records were made, two of them replaced the row of the
\* key they wrote, and the key was written under a lower-case ticker.
C1_Witness ==
    /\ nrec = 3
    /\ Cardinality(store) = 1
    /\ call.fn = "save_iv30"
    /\ call.symbol = <<"s", "p", "y">>
    /\ \E r \in store : r.symbol = <<"S", "P", "Y">> /\ <<r.iv30, r.price>> = call.reading

IsQuery == call.fn \in {"get_iv_history", "get_iv_history_default"}

\* The rows of the symbol the last query asked for (tickers are compared
\* without regard to case).
RequestedRows == {r \in store : r.symbol = upper(call.symbol)}

Smaller(a, b) == IF a < b THEN a ELSE b

\* C2: a query returns only readings of the requested symbol, most recent
\* first, at most lookbackDays of them (252 when the argument is omitted),
\* and when more exist, the lookbackDays most recent ones.
C2_QueryWindow ==
    IsQuery =>
        /\ call.fn = "get_iv_history_default" => call.days = 252
        /\ Len(ret) = Smaller(call.days, Cardinality(RequestedRows))
        /\ \A i \in 1..Len(ret) :
              \E r \in RequestedRows : r.date = ret[i][1] /\ r.iv30 = ret[i][2]
        /\ \A i, j \in 1..Len(ret) :
              i < j => DateBefore(DateOfString(ret[j][1]), DateOfString(ret[i][1]))
        /\ \A r \in RequestedRows :
              (\A i \in 1..Len(ret) : ret[i][1] # r.date)
              => \A i \in 1..Len(ret) :
                    DateBefore(DateOfString(r.date), DateOfString(ret[i][1]))

\* C2 witness: the symbol has two readings, another symbol has one, and a
\* query with lookback 1 returned the reading of the later day alone.
C2_Witness ==
    /\ call.fn = "get_iv_history"
    /\ call.days = 1
    /\ Cardinality(RequestedRows) = 2
    /\ store \ RequestedRows # {}
    /\ Len(ret) = 1
    /\ ret[1][1] = strftime_Ymd(<<2027, 1, 1>>)

-----------------------------------------------------------------------------
(* Option Symbol Codec: parse_option_symbol of app.py                      *)

Newline == "\n"

\* Whether every character of s[from..to] is a decimal digit / a capital.
AllDigits(s, from, to) == \A i \in from..to : IsDigit(s[i])

AllUpper(s, from, to) == \A i \in from..to : IsUpperLetter(s[i])

\* re.match(r"^([A-Z]+)(\d{6})([CP])(\d{8})$", symbol): the length of the
\* first group when the pattern matches, 0 when it does not.  `$` matches at
\* the end of the string and also just before a newline that ends the string.
MatchOCC(s) ==
    LET body == IF Len(s) > 0 /\ s[Len(s)] = Newline THEN Len(s) - 1 ELSE Len(s)
        n    == body - 15
    IN  IF /\ n >= 1
           /\ AllUpper(s, 1, n)
           /\ AllDigits(s, n + 1, n + 6)
           /\ s[n + 7] \in {"C", "P"}
           /\ AllDigits(s, n + 8, n + 15)
        THEN n ELSE 0

ValueError == [kind |-> "raise", exc |-> "ValueError"]

\* %y of strptime: 69..99 are years 1969..1999, 00..68 are 2000..2068.
CenturyPivot(yy) == IF yy <= 68 THEN 2000 + yy ELSE 1900 + yy

\* %m of strptime on two characters: 1[0-2] | 0[1-9]
MonthDirective(a, b) ==
    \/ a = "1" /\ b \in {"0", "1", "2"}
    \/ a = "0" /\ IsDigit(b) /\ b # "0"

\* %d of strptime on two characters: 3[01] | [12]\d | 0[1-9]
DayDirective(a, b) ==
    \/ a = "3" /\ b \in {"0", "1"}
    \/ a \in {"1", "2"} /\ IsDigit(b)
    \/ a = "0" /\ IsDigit(b) /\ b # "0"

\* datetime.strptime(exp, "%y%m%d") on six digits.  The one-digit forms of
\* %m and %d leave a digit unconverted, which raises as a mismatch does; a
\* day the month does not have raises when the datetime is built.
strptime_ymd(exp) ==
    IF ~(MonthDirective(exp[3], exp[4]) /\ DayDirective(exp[5], exp[6]))
    THEN ValueError
    ELSE LET y == CenturyPivot(int(SubSeq(exp, 1, 2)))
             m == int(SubSeq(exp, 3, 4))
             d == int(SubSeq(exp, 5, 6))
         IN  IF d > DaysInMonth(y, m) THEN ValueError
             ELSE [kind |-> "datetime", date |-> <<y, m, d>>]

\* int(strike) // 1000: the thousandths are dropped.
StrikeFloorDiv(digits) == [whole |-> int(digits) \div 1000, thousandths |-> 0]

\* int(strike) / 1000.0, as a decimal with three fractional digits (a double
\* holds every such value below 100000 to well within half a thousandth).
StrikeOf(digits) ==
    [whole |-> int(digits) \div 1000, thousandths |-> int(digits) % 1000]

\* parse_option_symbol(symbol)
parse_option_symbol(s) ==
    LET n == MatchOCC(s)
    IN  IF n = 0 THEN [kind |-> "None"]
        ELSE LET exp == strptime_ymd(SubSeq(s, n + 1, n + 6))
             IN  IF exp.kind = "raise" THEN exp
                 ELSE [kind        |-> "dict",
                       ticker      |-> SubSeq(s, 1, n),
                       expiration  |-> strftime_Ymd(exp.date),
                       option_type |-> IF s[n + 7] = "C" THEN "call" ELSE "put",
                       strike      |-> StrikeOf(SubSeq(s, n + 8, n + 15))]

\* Re-encoding of a parsed contract into the identifier grammar of the
\* specification: letters, YYMMDD, C or P, strike times 1000 on 8 digits.
encode_option_symbol(c) ==
    c.ticker
    \o SubSeq(c.expiration, 3, 4) \o SubSeq(c.expiration, 6, 7)
    \o SubSeq(c.expiration, 9, 10)
    \o <<IF c.option_type = "call" THEN "C" ELSE "P">>
    \o ZeroPad(c.strike.whole * 1000 + c.strike.thousandths, 8)

\* Identifiers handed to the parser.
AAPL == <<"A", "A", "P", "L">>

Scenario == AAPL \o <<"2", "6", "0", "2", "0", "6", "C">>
                 \o <<"0", "0", "2", "7", "7", "5", "0", "0">>

Identifier(t, yy, mm, dd, ty, k) ==
    t \o ZeroPad(yy, 2) \o ZeroPad(mm, 2) \o ZeroPad(dd, 2) \o <<ty>> \o ZeroPad(k, 8)

\* <<month, day>> fields: real dates, and months and days no calendar has.
MonthDayCases ==
    { <<1, 1>>, <<2, 6>>, <<2, 28>>, <<2, 29>>, <<2, 30>>, <<4, 30>>, <<4, 31>>,
      <<12, 31>>, <<0, 10>>, <<13, 1>>, <<1, 0>>, <<1, 32>>, <<10, 10>> }

StrikeCases == {0, 1, 277500, 100000, 12345678, 99999999}

ShapedIdentifiers ==
    {Identifier(AAPL, yy, md[1], md[2], "C", 277500) :
        yy \in 0..99, md \in MonthDayCases}
    \cup
    {Identifier(t, 26, 2, 6, ty, k) :
        t \in {AAPL, <<"F">>, <<"S", "P", "Y">>},
        ty \in {"C", "P", "X", "c", "5"}, k \in StrikeCases}
    \cup
    {Identifier(<<"F">>, yy, 12, 31, "P", k) :
        yy \in {0, 68, 69, 99}, k \in StrikeCases}

MalformedIdentifiers ==
    { <<>>,
      <<"A">>,
      SubSeq(Scenario, 1, 18),
      Scenario \o <<"0">>,
      Scenario \o <<Newline>>,
      SubSeq(Scenario, 5, 19),
      <<"a", "a", "p", "l">> \o SubSeq(Scenario, 5, 19),
      <<"A", "a", "P", "L">> \o SubSeq(Scenario, 5, 19),
      <<"A", "-", "P", "L">> \o SubSeq(Scenario, 5, 19),
      SubSeq(Scenario, 1, 10) \o <<"-">> \o SubSeq(Scenario, 12, 19) }

SymbolInputs == {Scenario} \cup ShapedIdentifiers \cup MalformedIdentifiers

CodecInit == ident \in SymbolInputs /\ parsed = [kind |-> "pending"]

\* The caller (api_options, analyze_options) parses a contract's identifier.
ParseSymbol ==
    /\ parsed.kind = "pending"
    /\ parsed' = parse_option_symbol(ident)
    /\ UNCHANGED <<ident, storeVars, rankVars, httpVars, cacheVars, calcVars, raceVars>>

InitCodec == StoreInit /\ CodecInit /\ RankIdle /\ HttpIdle /\ CacheIdle /\ CalcIdle

SpecCodec == InitCodec /\ [][ParseSymbol]_vars

-----------------------------------------------------------------------------
(* Claims about the Option Symbol Codec                                    *)

\* The identifier grammar, read from the end of the string: letters, six
\* digits, C or P, eight digits.
Shaped(s) ==
    /\ Len(s) >= 16
    /\ \A i \in (Len(s) - 7)..Len(s) : IsDigit(s[i])
    /\ s[Len(s) - 8] \in {"C", "P"}
    /\ \A i \in (Len(s) - 14)..(Len(s) - 9) : IsDigit(s[i])
    /\ \A i \in 1..(Len(s) - 15) : IsUpperLetter(s[i])

TwoDigits(s, i) == 10 * DigitVal(s[i]) + DigitVal(s[i + 1])

FieldYY(s) == TwoDigits(s, Len(s) - 14)

FieldMM(s) == TwoDigits(s, Len(s) - 12)

FieldDD(s) == TwoDigits(s, Len(s) - 10)

FieldStrike(s) == int(SubSeq(s, Len(s) - 7, Len(s)))

\* The six digits are a calendar date YYMMDD of the 2000s.
HasCalendarDate(s) ==
    /\ FieldMM(s) \in 1..12
    /\ FieldDD(s) \in 1..DaysInMonth(2000 + FieldYY(s), FieldMM(s))

Parsed == parsed.kind \notin {"idle", "pending"}

\* C7: for every input string the parser returns a parsed contract or
\* signals unparseable (None); it never raises.
C7_NeverRaises == Parsed => parsed.kind \in {"dict", "None"}

\* C8: for every identifier of the grammar whose six digits are a calendar
\* date, re-encoding the parsed contract reproduces the identifier character
\* for character.
C8_RoundTrip ==
    (Parsed /\ Shaped(ident) /\ HasCalendarDate(ident))
    => /\ parsed.kind = "dict"
       /\ encode_option_symbol(parsed) = ident

\* C8 witness: an identifier of year 99 whose strike has leading zeros and
\* non-zero thousandths was parsed into a contract.
C8_Witness ==
    /\ parsed.kind = "dict"
    /\ ident = <<"F", "9", "9", "1", "2", "3", "1", "P">>
               \o <<"0", "0", "0", "0", "0", "0", "0", "1">>
    /\ parsed.strike = [whole |-> 0, thousandths |-> 1]

\* C9: an identifier of the grammar with a valid month and day decodes to
\* the leading letters, the date 20YY-MM-DD, call for C and put for P, and
\* the 8-digit integer divided by 1000.
C9_Decodes20YY ==
    (Parsed /\ Shaped(ident) /\ HasCalendarDate(ident))
    => /\ parsed.kind = "dict"
       /\ parsed.ticker = SubSeq(ident, 1, Len(ident) - 15)
       /\ parsed.expiration =
              strftime_Ymd(<<2000 + FieldYY(ident), FieldMM(ident), FieldDD(ident)>>)
       /\ parsed.option_type = (IF ident[Len(ident) - 8] = "C" THEN "call" ELSE "put")
       /\ parsed.strike.thousandths \in 0..999
       /\ parsed.strike.whole * 1000 + parsed.strike.thousandths = FieldStrike(ident)
       /\ ident = Scenario =>
             /\ parsed.ticker = AAPL
             /\ parsed.expiration = <<"2", "0", "2", "6", "-", "0", "2", "-", "0", "6">>
             /\ parsed.option_type = "call"
             /\ parsed.strike = [whole |-> 277, thousandths |-> 500]

-----------------------------------------------------------------------------
(* IV rank: calc_iv_rank of app.py                                         *)

MaxHistory == 5     \* longest history handed to calc_iv_rank

\* iv30 values of the rows of a history, and current values below, among
\* and above them.
IVValues == {20, 25, 30, 35, 40}

CurrentValues == {15, 20, 30, 33, 45}

ZeroDivisionError == [kind |-> "raise", exc |-> "ZeroDivisionError"]

\* a / b * 100 on floats, as the exact rational; a zero divisor raises.
PercentOf(a, b) ==
    IF b = 0 THEN ZeroDivisionError
    ELSE [kind |-> "number", num |-> a * 100, den |-> b]

Number(n) == [kind |-> "number", num |-> n, den |-> 1]

\* min(vals), max(vals) of a non-empty list
min(vals) == CHOOSE v \in Range(vals) : \A o \in Range(vals) : v <= o

max(vals) == CHOOSE v \in Range(vals) : \A o \in Range(vals) : v >= o

\* calc_iv_rank without the guard for a constant history.
calc_iv_rank_unguarded(cur, hist) ==
    IF Len(hist) < 2 THEN [kind |-> "None"]
    ELSE LET vals == [i \in 1..Len(hist) |-> hist[i][2]]
         IN  PercentOf(cur - min(vals), max(vals) - min(vals))

\* calc_iv_rank(current, history)
calc_iv_rank(cur, hist) ==
    IF Len(hist) < 2 THEN [kind |-> "None"]
    ELSE LET vals == [i \in 1..Len(hist) |-> hist[i][2]]
             lo   == min(vals)
             hi   == max(vals)
         IN  IF hi # lo THEN PercentOf(cur - lo, hi - lo) ELSE Number(50)

\* calc_iv_percentile counting the values equal to the current one.
calc_iv_percentile_ties(cur, hist) ==
    IF Len(hist) < 2 THEN [kind |-> "None"]
    ELSE LET vals == [i \in 1..Len(hist) |-> hist[i][2]]
         IN  PercentOf(Cardinality({i \in 1..Len(vals) : vals[i] <= cur}), Len(vals))

\* calc_iv_percentile(current, history)
calc_iv_percentile(cur, hist) ==
    IF Len(hist) < 2 THEN [kind |-> "None"]
    ELSE LET vals == [i \in 1..Len(hist) |-> hist[i][2]]
         IN  PercentOf(Cardinality({i \in 1..Len(vals) : vals[i] < cur}), Len(vals))

\* Histories as get_iv_history returns them: rows <<date, iv30>>, the most
\* recent first, one per day.
RowDate(i) == strftime_Ymd(AddDays(<<2026, 2, 25>>, MaxHistory + 1 - i))

Histories(n) ==
    LET dates == [i \in 1..n |-> RowDate(i)]
    IN  {[i \in 1..n |-> <<dates[i], f[i]>>] : f \in [1..n -> IVValues]}

RankInit ==
    /\ current \in CurrentValues
    /\ \E n \in 0..MaxHistory : history \in Histories(n)
    /\ rank = [kind |-> "pending"]
    /\ percentile = [kind |-> "pending"]

\* The caller (api_quote, analyze_options) ranks the current reading and
\* takes its percentile.
RankCurrent ==
    /\ rank.kind = "pending"
    /\ rank' = calc_iv_rank(current, history)
    /\ percentile' = calc_iv_percentile(current, history)
    /\ UNCHANGED <<current, history, storeVars, codecVars, httpVars, cacheVars, calcVars, raceVars>>

InitRank == StoreInit /\ CodecIdle /\ RankInit /\ HttpIdle /\ CacheIdle /\ CalcIdle

SpecRank == InitRank /\ [][RankCurrent]_vars

-----------------------------------------------------------------------------
(* Claims about the IV rank                                                *)

HistoryValues == {history[i][2] : i \in 1..Len(history)}

Lowest == CHOOSE v \in HistoryValues : \A o \in HistoryValues : v <= o

Highest == CHOOSE v \in HistoryValues : \A o \in HistoryValues : v >= o

Ranked == rank.kind \notin {"idle", "pending"}

\* C10: rank(current, history) is null exactly when the history has fewer
\* than 2 points; with 2 or more points it is exactly 50 when the highest and
\* lowest historical values are equal, for every current value, and otherwise
\* (current - min) / (max - min) x 100, which is 50 for the history
\* [20, 25, 30, 35, 40] and current value 30.
C10_RankFormula ==
    Ranked =>
        /\ rank.kind = "None" <=> Len(history) < 2
        /\ Len(history) >= 2 =>
              /\ rank.kind = "number"
              /\ rank.den # 0
              /\ Highest = Lowest => rank.num = 50 * rank.den
              /\ Highest # Lowest =>
                    rank.num * (Highest - Lowest) = (current - Lowest) * 100 * rank.den
        /\ ( /\ current = 30
             /\ [i \in 1..Len(history) |-> history[i][2]] = <<20, 25, 30, 35, 40>> )
           => rank.kind = "number" /\ rank.num = 50 * rank.den

\* C10 witness: a constant history of two points was ranked, for a current
\* value that is not in it.
C10_Witness ==
    /\ rank.kind = "number"
    /\ Len(history) = 2
    /\ HistoryValues = {25}
    /\ current = 45
    /\ rank.num = 50 /\ rank.den = 1

\* C11: for every current value and every history of at least 2 points the
\* rank lies in the closed interval [0, 100].
C11_RankInRange ==
    (Ranked /\ Len(history) >= 2) =>
        /\ rank.kind = "number"
        /\ rank.den > 0
        /\ 0 <= rank.num
        /\ rank.num <= 100 * rank.den

\* The historical values strictly below the current one, with repetitions.
Below == Cardinality({i \in 1..Len(history) : history[i][2] < current})

\* C12: the percentile is null when the history has fewer than 2 points;
\* otherwise it is 100 x (number of historical values strictly below the
\* current one) / (number of historical values), so equal values do not
\* count; it lies in [0, 100], is 0 for a current value at or below the
\* historical minimum and 100 for one above the historical maximum.
C12_PercentileFormula ==
    Ranked =>
        /\ percentile.kind = "None" <=> Len(history) < 2
        /\ Len(history) >= 2 =>
              /\ percentile.kind = "number"
              /\ percentile.den > 0
              /\ percentile.num * Len(history) = 100 * Below * percentile.den
              /\ 0 <= percentile.num
              /\ percentile.num <= 100 * percentile.den
              /\ current <= Lowest => percentile.num = 0
              /\ current > Highest => percentile.num = 100 * percentile.den

\* C12 witness: the percentile of 30 in the history [20, 25, 30, 35, 40] was
\* taken: the 30 of the history does not count, it is 2 / 5 x 100.
C12_Witness ==
    /\ percentile.kind = "number"
    /\ current = 30
    /\ [i \in 1..Len(history) |-> history[i][2]] = <<20, 25, 30, 35, 40>>
    /\ percentile.num = 200 /\ percentile.den = 5

-----------------------------------------------------------------------------
(* The quote and options endpoints of app.py                               *)

\* requests.get(url, headers=HEADERS): no timeout argument, so requests waits
\* for the server without limit.
RequestTimeout == None

\* What the collaborator does with a request: it answers, or it never does.
Upstreams == {"answers", "silent"}

\* How a requests.get call can end: a 200 response, a 4xx response (the
\* ticker is not known to the collaborator), a 5xx response, a connection
\* that fails, or, when a timeout was given, the timeout.
FetchOutcomes(upstream, timeout) ==
    IF upstream = "answers" THEN {"ok", "http_4xx", "http_5xx", "conn_error"}
    ELSE IF timeout = None THEN {} ELSE {"timeout"}

\* resp.raise_for_status() raises HTTPError on every 4xx and 5xx status; a
\* failed connection and a timeout raise other RequestExceptions.
Raised(outcome) ==
    IF outcome \in {"http_4xx", "http_5xx"} THEN "HTTPError"
    ELSE IF outcome = "conn_error" THEN "ConnectionError"
    ELSE "Timeout"

\* except requests.exceptions.HTTPError: ... 404 / except Exception: ... 500
ErrorStatus(exc) == IF exc = "HTTPError" THEN 404 ELSE 500

ErrorBody(exc, t) ==
    IF exc = "HTTPError"
    THEN [kind |-> "error", error |-> "Could not fetch", ticker |-> upper(t)]
    ELSE [kind |-> "error", error |-> exc, ticker |-> upper(t)]

Failed(thread, outcome) ==
    [thread EXCEPT !.pc = "done", !.outcome = outcome,
                   !.status = ErrorStatus(Raised(outcome)),
                   !.body = ErrorBody(Raised(outcome), thread.ticker)]

\* datetime.strptime(expiration, "%Y-%m-%d") of a date strftime wrote
strptime_Ymd(str) ==
    <<int(SubSeq(str, 1, 4)), int(SubSeq(str, 6, 7)), int(SubSeq(str, 9, 10))>>

\* (exp_dt - datetime.now()).days: exp_dt is the midnight that starts the
\* expiration day, so any time of day past midnight costs a whole day.
DaysTo(exp, now, pastMidnight) ==
    Ordinal(exp) - Ordinal(now) - (IF pastMidnight THEN 1 ELSE 0)

\* sorted() of a set of strings
RECURSIVE sorted(_)
sorted(strs) ==
    IF strs = {} THEN <<>>
    ELSE LET first == CHOOSE x \in strs : \A o \in strs : ~StrLess(o, x)
         IN  <<first>> \o sorted(strs \ {first})

MaxExpirations == 6

\* seq[-n:]
Suffix(seq, n) == SubSeq(seq, Len(seq) - Smaller(n, Len(seq)) + 1, Len(seq))

\* seq[:n]
Prefix(seq, n) == SubSeq(seq, 1, Smaller(n, Len(seq)))

\* [r for r in rows if r["expiration"] in expirations]
RECURSIVE RowsExpiringIn(_, _)
RowsExpiringIn(rows, expirations) ==
    IF rows = <<>> THEN <<>>
    ELSE (IF Head(rows).expiration \in Range(expirations) THEN <<Head(rows)>> ELSE <<>>)
         \o RowsExpiringIn(Tail(rows), expirations)

\* The loop of api_options over the raw chain: the rows built so far, or the
\* exception that ended it.  Of a row the model keeps the columns that come
\* from the identifier and the clock.
RECURSIVE BuildRows(_, _, _)
BuildRows(raw, now, pastMidnight) ==
    IF raw = <<>> THEN [kind |-> "rows", rows |-> <<>>]
    ELSE LET p == parse_option_symbol(Head(raw).option)
             rest == BuildRows(Tail(raw), now, pastMidnight)
         IN  IF p.kind = "raise" THEN p
             ELSE IF rest.kind = "raise" THEN rest
             ELSE IF p.kind = "None" THEN rest
             ELSE LET dte == DaysTo(strptime_Ymd(p.expiration), now, pastMidnight)
                  IN  IF dte < 0 THEN rest
                      ELSE [kind |-> "rows",
                            rows |-> <<[symbol     |-> Head(raw).option,
                                        type       |-> p.option_type,
                                        expiration |-> p.expiration,
                                        dte        |-> dte,
                                        strike     |-> p.strike]>> \o rest.rows]

\* The body of api_options once both fetches succeeded.
OptionsResult(t, quote, raw, now, pastMidnight) ==
    LET built == BuildRows(raw, now, pastMidnight)
    IN  IF built.kind = "raise"
        THEN [status |-> ErrorStatus(built.exc), body |-> ErrorBody(built.exc, t)]
        ELSE LET expirations ==
                     Prefix(sorted({built.rows[i].expiration : i \in 1..Len(built.rows)}),
                            MaxExpirations)
             IN  [status |-> 200,
                  body |-> [kind |-> "options", ticker |-> upper(t),
                            price |-> quote[2], iv30 |-> quote[1],
                            expirations |-> expirations,
                            options |-> RowsExpiringIn(built.rows, expirations)]]

\* The body of api_quote once the reading is saved.
QuoteResult(t, quote, hist) ==
    [kind |-> "quote", ticker |-> upper(t), price |-> quote[2], iv30 |-> quote[1],
     iv_rank |-> calc_iv_rank(quote[1], hist),
     iv_percentile |-> calc_iv_percentile(quote[1], hist),
     iv_history_days |-> Len(hist)]

\* Tickers of the requests, and chains the collaborator returns.
HttpTickers == { <<"s", "p", "y">>, <<"Q", "Q", "Q">> }

\* The chains are asked for as "spy".
OptionsTickers == { <<"s", "p", "y">> }

SPY == <<"S", "P", "Y">>

Contract(yy, mm, dd, ty, k) == [option |-> Identifier(SPY, yy, mm, dd, ty, k)]

\* Seven distinct expirations, out of order, one of them on two contracts.
SevenExpirations ==
    <<Contract(27, 6, 18, "C", 500000), Contract(27, 1, 15, "C", 500000),
      Contract(27, 3, 19, "P", 450000), Contract(27, 1, 22, "C", 500000),
      Contract(27, 6, 18, "P", 450000), Contract(27, 5, 21, "C", 500000),
      Contract(27, 2, 19, "C", 500000), Contract(27, 4, 16, "P", 450000),
      Contract(27, 1, 15, "P", 450000)>>

Chains ==
    { <<>>,
      <<Contract(27, 1, 15, "C", 500000), [option |-> <<"S", "P", "Y">>],
        Contract(26, 2, 6, "P", 450000)>>,
      <<Contract(27, 1, 15, "C", 500000), Contract(27, 2, 30, "C", 500000)>>,
      <<Contract(27, 1, 2, "P", 450500), Contract(27, 1, 1, "C", 500000)>>,
      SevenExpirations }

\* GET /api/quote/<ticker> arrives: fetch_cboe_quote sends its request.
QuoteRequest(w, t) ==
    /\ workers[w].pc = "idle"
    /\ \E up \in Upstreams :
          workers' = [workers EXCEPT ![w] =
              [IdleThread EXCEPT !.pc = "quote_fetch", !.route = "quote",
                                 !.ticker = t, !.upstream = up,
                                 !.fetched = <<"quotes">>]]
    /\ UNCHANGED <<storeVars, codecVars, rankVars, cacheVars, calcVars, raceVars>>

\* fetch_cboe_quote returns or raises; on a quote the reading is saved.
QuoteFetched(w) ==
    /\ workers[w].pc = "quote_fetch"
    /\ \E out \in FetchOutcomes(workers[w].upstream, RequestTimeout), rd \in Readings :
          IF out = "ok"
          THEN /\ store' = save_iv30(store, today, workers[w].ticker, rd[1], rd[2])
               /\ latest' = (<<upper(workers[w].ticker), strftime_Ymd(today)>> :> rd)
                            @@ latest
               /\ workers' = [workers EXCEPT ![w].pc = "quote_saved",
                                             ![w].outcome = out, ![w].quote = rd]
          ELSE /\ workers' = [workers EXCEPT ![w] = Failed(workers[w], out)]
               /\ UNCHANGED <<store, latest>>
    /\ UNCHANGED <<today, nrec, call, ret, codecVars, rankVars, cacheVars, calcVars, raceVars>>

\* api_quote reads the history back and answers.
QuoteRespond(w) ==
    /\ workers[w].pc = "quote_saved"
    /\ workers' = [workers EXCEPT ![w].pc = "done", ![w].status = 200,
          ![w].body = QuoteResult(workers[w].ticker, workers[w].quote,
                                  get_iv_history_default(store, workers[w].ticker))]
    /\ UNCHANGED <<storeVars, codecVars, rankVars, cacheVars, calcVars, raceVars>>

\* GET /api/options/<ticker> arrives: fetch_cboe_quote sends its request.
OptionsRequest(w, t) ==
    /\ workers[w].pc = "idle"
    /\ \E up \in Upstreams :
          workers' = [workers EXCEPT ![w] =
              [IdleThread EXCEPT !.pc = "options_quote_fetch", !.route = "options",
                                 !.ticker = t, !.upstream = up,
                                 !.fetched = <<"quotes">>]]
    /\ UNCHANGED <<storeVars, codecVars, rankVars, cacheVars, calcVars, raceVars>>

\* fetch_cboe_quote returns or raises; on a quote fetch_cboe_options sends
\* its request.
OptionsQuoteFetched(w) ==
    /\ workers[w].pc = "options_quote_fetch"
    /\ \E out \in FetchOutcomes(workers[w].upstream, RequestTimeout),
          rd \in Readings, up \in Upstreams :
          IF out = "ok"
          THEN workers' = [workers EXCEPT ![w].pc = "options_chain_fetch",
                              ![w].outcome = out, ![w].quote = rd, ![w].upstream = up,
                              ![w].fetched = Append(workers[w].fetched, "options")]
          ELSE workers' = [workers EXCEPT ![w] = Failed(workers[w], out)]
    /\ UNCHANGED <<storeVars, codecVars, rankVars, cacheVars, calcVars, raceVars>>

\* fetch_cboe_options returns or raises; on a chain the rows are built and
\* api_options answers.
OptionsChainFetched(w) ==
    /\ workers[w].pc = "options_chain_fetch"
    /\ \E out \in FetchOutcomes(workers[w].upstream, RequestTimeout),
          raw \in Chains, pastMidnight \in BOOLEAN :
          IF out = "ok"
          THEN LET res == OptionsResult(workers[w].ticker, workers[w].quote, raw,
                                        today, pastMidnight)
               IN  workers' = [workers EXCEPT ![w].pc = "done", ![w].outcome = out,
                                   ![w].chain = raw, ![w].late = pastMidnight,
                                   ![w].status = res.status, ![w].body = res.body]
          ELSE workers' = [workers EXCEPT ![w] = Failed(workers[w], out)]
    /\ UNCHANGED <<storeVars, codecVars, rankVars, cacheVars, calcVars, raceVars>>

\* The response is sent and the thread takes the next request.
Deliver(w) ==
    /\ workers[w].pc = "done"
    /\ workers' = [workers EXCEPT ![w] = IdleThread]
    /\ UNCHANGED <<storeVars, codecVars, rankVars, cacheVars, calcVars, raceVars>>

HttpNext ==
    \/ \E w \in Threads, t \in HttpTickers : QuoteRequest(w, t)
    \/ \E w \in Threads : QuoteFetched(w)
    \/ \E w \in Threads : QuoteRespond(w)
    \/ \E w \in Threads, t \in OptionsTickers : OptionsRequest(w, t)
    \/ \E w \in Threads : OptionsQuoteFetched(w)
    \/ \E w \in Threads : OptionsChainFetched(w)
    \/ \E w \in Threads : Deliver(w)

\* The server starts on StartDate over a table that holds SPY's reading of
\* the day before.
Yesterday == [symbol |-> SPY, date |-> strftime_Ymd(<<2026, 12, 30>>),
              iv30 |-> 18, price |-> 100]

HttpStoreInit ==
    /\ today = StartDate
    /\ store = {Yesterday}
    /\ latest = (<<Yesterday.symbol, Yesterday.date>> :> <<18, 100>>)
    /\ nrec = 0
    /\ call = [fn |-> "init"]
    /\ ret = None

InitHttp == HttpStoreInit /\ CodecIdle /\ RankIdle /\ HttpIdle /\ CacheIdle /\ CalcIdle

SpecHttp == InitHttp /\ [][HttpNext]_vars

-----------------------------------------------------------------------------
(* Claims about the endpoints                                              *)

Fetching(w) ==
    workers[w].pc \in {"quote_fetch", "options_quote_fetch", "options_chain_fetch"}

FetchReturns(w) == QuoteFetched(w) \/ OptionsQuoteFetched(w) \/ OptionsChainFetched(w)

\* C5: no request blocks indefinitely: a request that waits for a
\* collaborator can always still go on, with the answer or, when the
\* collaborator never answers, with the failure its timeout raises.
C5_NoRequestHangs == \A w \in Threads : Fetching(w) => ENABLED FetchReturns(w)

NoDuplicates(seq) == \A i, j \in 1..Len(seq) : seq[i] = seq[j] => i = j

\* C6: the quote and options endpoints surface a ticker the collaborator does
\* not recognise as not-found (404), surface an upstream failure (5xx, broken
\* connection, timeout) as a generic failure that is not a not-found, and
\* fetch no URL twice.
C6_FailuresKeptApart ==
    \A w \in Threads :
        workers[w].pc = "done" =>
            /\ workers[w].outcome = "http_4xx" => workers[w].status = 404
            /\ workers[w].outcome \in {"http_5xx", "conn_error", "timeout"}
               => workers[w].status = 500
            /\ NoDuplicates(workers[w].fetched)

\* An options request answered with the analysed chain.
Analysed(w) ==
    /\ workers[w].pc = "done"
    /\ workers[w].route = "options"
    /\ workers[w].status = 200

\* The contracts that survived parsing and the days-to-expiry filter.
Survivors(w) == BuildRows(workers[w].chain, today, workers[w].late).rows

ExpirationsOf(rows) == {rows[i].expiration : i \in 1..Len(rows)}

\* C14: the output has at most 6 distinct expirations, in ascending order:
\* the 6 earliest distinct expirations of the surviving contracts; every
\* contract of the output expires on one of them and every surviving contract
\* that does is in the output, in the order of the chain.  Of 7 distinct
\* expirations only the latest is dropped.
C14_NearestSixExpirations ==
    \A w \in Threads :
        Analysed(w) =>
            LET all == ExpirationsOf(Survivors(w))
                listed == workers[w].body.expirations
                kept == Range(listed)
                Kept(r) == r.expiration \in kept
            IN  /\ Len(listed) <= 6
                /\ \A i \in 1..(Len(listed) - 1) : StrLess(listed[i], listed[i + 1])
                /\ kept \subseteq all
                /\ Cardinality(kept) = Smaller(6, Cardinality(all))
                /\ \A e \in kept, f \in all \ kept : StrLess(e, f)
                /\ workers[w].body.options = SelectSeq(Survivors(w), Kept)
                /\ Cardinality(all) = 7 =>
                      \E last \in all : /\ all \ kept = {last}
                                        /\ \A e \in kept : StrLess(e, last)

\* C14 witness: a chain with seven distinct expirations was analysed, six of
\* them are listed and the two contracts of 2027-06-18 are not in the output.
C14_Witness ==
    \E w \in Threads :
        /\ Analysed(w)
        /\ workers[w].chain = SevenExpirations
        /\ Cardinality(ExpirationsOf(Survivors(w))) = 7
        /\ Len(workers[w].body.expirations) = 6
        /\ Len(workers[w].body.options) = 7

\* An options request whose two fetches both returned.
ChainFetched(w) ==
    /\ workers[w].pc = "done"
    /\ workers[w].route = "options"
    /\ Len(workers[w].fetched) = 2
    /\ workers[w].outcome = "ok"

\* What api_options makes of contract i of the chain when it is alone in it.
Alone(w, i) == BuildRows(<<workers[w].chain[i]>>, today, workers[w].late)

\* C15: identifiers that do not parse are skipped and the other contracts
\* are not affected: the answer is a success, a contract that yields a row on
\* its own and expires on a listed expiration has that row in the output,
\* and a chain none of whose contracts parses, the empty chain included,
\* gives an empty contract list and an empty expiration list.
C15_UnparseableSkipped ==
    \A w \in Threads :
        ChainFetched(w) =>
            LET chain == workers[w].chain
                body == workers[w].body
            IN  /\ workers[w].status = 200
                /\ body.kind = "options"
                /\ \A i \in 1..Len(chain) :
                      ( /\ Alone(w, i).kind = "rows"
                        /\ Alone(w, i).rows # <<>>
                        /\ Alone(w, i).rows[1].expiration \in Range(body.expirations) )
                      => Alone(w, i).rows[1] \in Range(body.options)
                /\ (\A i \in 1..Len(chain) : parse_option_symbol(chain[i].option).kind # "dict")
                   => body.options = <<>> /\ body.expirations = <<>>

\* The thread has recorded the reading of its quote and has not yet
\* delivered its response.
Wrote(w) ==
    /\ workers[w].route = "quote"
    /\ workers[w].pc \in {"quote_saved", "done"}
    /\ workers[w].outcome = "ok"

WrittenKey(w) == <<upper(workers[w].ticker), strftime_Ymd(today)>>

RowsAt(k) == {r \in store : KeyOf(r) = k}

\* A write of thread w leaves the rows of every other key as they are.
OtherKeysUntouched(w) ==
    QuoteFetched(w) =>
        /\ \A r \in store : KeyOf(r) # WrittenKey(w) => r \in store'
        /\ \A r \in store' : KeyOf(r) # WrittenKey(w) => r \in store

\* C19: when two requests in flight have both recorded a reading for the same
\* (symbol, date), the table holds exactly one row for the key, its
\* (iv30, price) pair is the pair of one of the two, the one applied last,
\* and a write changes no row of another key.
C19_LastWriterWins ==
    /\ [](\A w1, w2 \in Threads :
              (w1 # w2 /\ Wrote(w1) /\ Wrote(w2) /\ WrittenKey(w1) = WrittenKey(w2))
              => /\ Cardinality(RowsAt(WrittenKey(w1))) = 1
                 /\ \A r \in RowsAt(WrittenKey(w1)) :
                       /\ <<r.iv30, r.price>> \in {workers[w1].quote, workers[w2].quote}
                       /\ <<r.iv30, r.price>> = latest[WrittenKey(w1)])
    /\ [](\A k \in DOMAIN latest :
              \E r \in store : KeyOf(r) = k /\ <<r.iv30, r.price>> = latest[k])
    /\ [][\A w \in Threads : OtherKeysUntouched(w)]_vars

\* C19 witness: both threads have recorded different readings for SPY today,
\* under tickers of different case, after a reading of QQQ was recorded: the
\* table holds one row for SPY today with the pair of the first thread, and
\* the rows of QQQ and of SPY's day before are in place.
C19_Witness ==
    /\ Wrote("t1") /\ Wrote("t2")
    /\ WrittenKey("t1") = <<SPY, strftime_Ymd(today)>>
    /\ WrittenKey("t2") = WrittenKey("t1")
    /\ workers["t1"].quote = <<18, 100>> /\ workers["t2"].quote = <<25, 105>>
    /\ RowsAt(WrittenKey("t1")) =
           {[symbol |-> SPY, date |-> strftime_Ymd(today), iv30 |-> 18, price |-> 100]}
    /\ Yesterday \in store
    /\ \E r \in store : r.symbol = <<"Q", "Q", "Q">>

\* The quote endpoint has answered the request of thread w with a quote.
QuoteAnswered(w) ==
    /\ workers[w].route = "quote"
    /\ workers[w].pc = "done"
    /\ workers[w].status = 200

\* C27: the quote endpoint records the reading before it queries the
\* history, so that the reported history length is at least 1, a symbol's
\* first quote ever reports rank and percentile as null, and a rank that is
\* not null lies in [0, 100] and a percentile that is not null is strictly
\* below 100.
C27_HistoryHoldsCurrent ==
    \A w \in Threads :
        QuoteAnswered(w) =>
            LET body == workers[w].body
            IN  /\ body.iv_history_days >= 1
                /\ body.iv_history_days = 1 =>
                       body.iv_rank.kind = "None" /\ body.iv_percentile.kind = "None"
                /\ body.iv_rank.kind # "None" =>
                       /\ body.iv_rank.kind = "number"
                       /\ 0 <= body.iv_rank.num
                       /\ body.iv_rank.num <= 100 * body.iv_rank.den
                /\ body.iv_percentile.kind # "None" =>
                       /\ body.iv_percentile.kind = "number"
                       /\ body.iv_percentile.num < 100 * body.iv_percentile.den

-----------------------------------------------------------------------------
(* The snapshot caches of app.py and sector_dashboard.py                   *)

CHART_CACHE_TTL == 900

SIGNALS_CACHE_TTL == 900

HOLDINGS_CACHE_TTL == 86400

RANGE_DAYS ==
    ("1mo" :> 30) @@ ("3mo" :> 90) @@ ("6mo" :> 180) @@ ("1y" :> 365)
    @@ ("5y" :> 1825) @@ ("max" :> 999999)

GLD == <<"G", "L", "D">>

EWJ == <<"E", "W", "J">>

\* One of the sector ETFs and one of the international ETFs.
ETF_REGISTRY == <<GLD>>

INTL_REGISTRY == <<EWJ>>

Registered == Range(ETF_REGISTRY) \cup Range(INTL_REGISTRY)

RISK_CLASS == (GLD :> "risk-off") @@ (EWJ :> "risk-off")

\* A list the program got at time asof: len price bars, one per calendar day,
\* the last of them dated that day; or len holdings.
ListOf(asof, len) == [asof |-> asof, len |-> len]

\* The ETFs whose holdings are a fixed table.
_SINGLE_ASSET_HOLDINGS == (GLD :> ListOf(0, 1))

\* The steps of the clock, in seconds, and how many of them a behaviour takes.
Deltas == {450, 43200}

MaxTicks == 2

\* How many requests to the cached endpoints a behaviour makes.
MaxRequests == 2

\* What Mboum does with a history request: a body of so many bars, or a
\* failure.  A request it never answers does not return: see RequestTimeout.
BarCounts == {0, 49, 50}

MboumReplies ==
    { [outcome |-> "ok", len |-> n, momentum |-> 0] : n \in BarCounts \ {50} }
    \cup { [outcome |-> "ok", len |-> 50, momentum |-> 55] }
    \cup { [outcome |-> "http_5xx", len |-> 0, momentum |-> 0] }

\* The records of a reply, got at time asof.
BarsOf(asof, reply) ==
    [asof |-> asof, len |-> reply.len, momentum |-> reply.momentum]

\* What yfinance does with funds_data.top_holdings: a table, or an exception.
HoldingCounts == {0, 10}

YahooReplies ==
    { [outcome |-> "ok", len |-> n] : n \in HoldingCounts }
    \cup { [outcome |-> "error", len |-> 0] }

\* What a read of a cache found, did and left: the entry before and after it
\* as [data, stored_at], whether the data source was called and how that
\* ended, and what the caller got.
ReadLog(cache, key, now, had, before, called, outcome, kind, value, after) ==
    [cache |-> cache, key |-> key, now |-> now, had |-> had, before |-> before,
     called |-> called, outcome |-> outcome, kind |-> kind, value |-> value,
     after |-> after]

NoEntry == [data |-> Nothing, stored_at |-> 0]

StoredEntry(e) == [data |-> e.data, stored_at |-> e.fetched_at]

\* app.py _fetch_mboum(ticker, interval), given the clock and what Mboum does
\* if it is asked: the records returned or the exception raised, the cache
\* afterwards, and the log of the read.
_fetch_mboum(cache, now, ticker, interval, reply) ==
    LET cache_key == <<upper(ticker), interval>>
        had == cache_key \in DOMAIN cache
        before == IF had THEN StoredEntry(cache[cache_key]) ELSE NoEntry
    IN  IF had /\ (now - cache[cache_key].fetched_at) < CHART_CACHE_TTL
        THEN [kind |-> "return", value |-> cache[cache_key].data, cache |-> cache,
              read |-> ReadLog("chart", cache_key, now, had, before, FALSE, None,
                               "return", cache[cache_key].data, before)]
        ELSE IF reply.outcome # "ok"
        THEN [kind |-> "raise", value |-> Raised(reply.outcome), cache |-> cache,
              read |-> ReadLog("chart", cache_key, now, had, before, TRUE,
                               reply.outcome, "raise", Raised(reply.outcome), before)]
        ELSE LET records == BarsOf(now, reply)
                 entry == [data |-> records, fetched_at |-> now]
             IN  [kind |-> "return", value |-> records,
                  cache |-> (cache_key :> entry) @@ cache,
                  read |-> ReadLog("chart", cache_key, now, had, before, TRUE,
                                   reply.outcome, "return", records,
                                   StoredEntry(entry))]

\* sector_dashboard.py _fetch_mboum(ticker, interval): the cache holds the
\* records alone; the log takes, as the time they were stored, the time the
\* records were got.
dashboard_fetch_mboum(cache, now, ticker, interval, reply) ==
    LET cache_key == <<upper(ticker), interval>>
        had == cache_key \in DOMAIN cache
        before == IF had THEN [data |-> cache[cache_key],
                               stored_at |-> cache[cache_key].asof]
                  ELSE NoEntry
    IN  IF had
        THEN [kind |-> "return", value |-> cache[cache_key], cache |-> cache,
              read |-> ReadLog("dashboard_chart", cache_key, now, had, before, FALSE,
                               None, "return", cache[cache_key], before)]
        ELSE IF reply.outcome # "ok"
        THEN [kind |-> "raise", value |-> Raised(reply.outcome), cache |-> cache,
              read |-> ReadLog("dashboard_chart", cache_key, now, had, before, TRUE,
                               reply.outcome, "raise", Raised(reply.outcome), before)]
        ELSE LET records == BarsOf(now, reply)
             IN  [kind |-> "return", value |-> records,
                  cache |-> (cache_key :> records) @@ cache,
                  read |-> ReadLog("dashboard_chart", cache_key, now, had, before,
                                   TRUE, reply.outcome, "return", records,
                                   [data |-> records, stored_at |-> now])]

\* _fetch_holdings(etf_ticker)
_fetch_holdings(cache, now, etf_ticker, reply) ==
    LET had == etf_ticker \in DOMAIN cache
        before == IF had THEN StoredEntry(cache[etf_ticker]) ELSE NoEntry
    IN  IF etf_ticker \in DOMAIN _SINGLE_ASSET_HOLDINGS
        THEN [value |-> _SINGLE_ASSET_HOLDINGS[etf_ticker], cache |-> cache,
              read |-> ReadLog("single_asset", etf_ticker, now, FALSE, NoEntry, FALSE,
                               None, "return", _SINGLE_ASSET_HOLDINGS[etf_ticker],
                               NoEntry)]
        ELSE IF had /\ (now - cache[etf_ticker].fetched_at) < HOLDINGS_CACHE_TTL
        THEN [value |-> cache[etf_ticker].data, cache |-> cache,
              read |-> ReadLog("holdings", etf_ticker, now, had, before, FALSE, None,
                               "return", cache[etf_ticker].data, before)]
        ELSE IF reply.outcome = "ok"
        THEN LET holdings == ListOf(now, reply.len)
                 entry == [data |-> holdings, fetched_at |-> now]
             IN  [value |-> holdings, cache |-> (etf_ticker :> entry) @@ cache,
                  read |-> ReadLog("holdings", etf_ticker, now, had, before, TRUE,
                                   reply.outcome, "return", holdings,
                                   StoredEntry(entry))]
        ELSE LET fallback == IF had THEN cache[etf_ticker].data ELSE ListOf(now, 0)
             IN  [value |-> fallback, cache |-> cache,
                  read |-> ReadLog("holdings", etf_ticker, now, had, before, TRUE,
                                   reply.outcome, "return", fallback, before)]

\* RANGE_DAYS.get(range_period, 365) and the filter r["time"] >= cutoff of
\* api_chart_data: bar i before the last is dated i days before the day the
\* records were got, the cutoff is days days before today.
DayOf(t) == t \div 86400

FilterByRange(records, range_period, now) ==
    LET days == IF range_period \in DOMAIN RANGE_DAYS THEN RANGE_DAYS[range_period]
                ELSE 365
    IN  IF days < 999999
        THEN ListOf(records.asof,
                    Cardinality({ i \in 0..(records.len - 1) :
                                    DayOf(records.asof) - i >= DayOf(now) - days }))
        ELSE records

\* The body of api_chart_data (either module) around its _fetch_mboum call.
ChartResponse(route, seq, fetch, range_period, now) ==
    IF fetch.kind = "raise"
    THEN [route |-> route, seq |-> seq, status |-> 500,
          body |-> [kind |-> "error", error |-> fetch.value], reads |-> <<fetch.read>>]
    ELSE [route |-> route, seq |-> seq, status |-> 200,
          body |-> FilterByRange(fetch.value, range_period, now),
          reads |-> <<fetch.read>>]

\* The signals of one risk class, in the order of the results.
OfClass(results, class) ==
    LET Is(r) == r.risk_class = class
    IN  SelectSeq(results, Is)

\* The breadth with an empty class counted as all of its members strong.
Breadth_of_all(group) ==
    IF group = <<>>
    THEN [num |-> 100, den |-> 1]
    ELSE [num |-> Cardinality({ i \in 1..Len(group) : group[i].momentum >= 55 }) * 100,
          den |-> Len(group)]

\* sum(1 for r in group if r["momentum"] >= 5.5) / len(group) * 100 if group else 0
Breadth(group) ==
    IF group = <<>>
    THEN [num |-> 0, den |-> 1]
    ELSE [num |-> Cardinality({ i \in 1..Len(group) : group[i].momentum >= 55 }) * 100,
          den |-> Len(group)]

\* breadth > t  and  breadth < t
Over(breadth, t) == breadth.num > t * breadth.den

Under(breadth, t) == breadth.num < t * breadth.den

\* The rules of the label with the thresholds of 50 included.
regime_label_inclusive(ro_breadth, rf_breadth) ==
    IF ~Under(ro_breadth, 50) /\ ~Over(rf_breadth, 50) THEN "RISK-ON"
    ELSE IF ~Under(rf_breadth, 50) /\ ~Over(ro_breadth, 50) THEN "RISK-OFF"
    ELSE IF Under(ro_breadth, 40) /\ Under(rf_breadth, 40) THEN "LIQUIDATION"
    ELSE "MIXED"

regime_label(ro_breadth, rf_breadth) ==
    IF Over(ro_breadth, 50) /\ Under(rf_breadth, 50) THEN "RISK-ON"
    ELSE IF Over(rf_breadth, 50) /\ Under(ro_breadth, 50) THEN "RISK-OFF"
    ELSE IF Under(ro_breadth, 40) /\ Under(rf_breadth, 40) THEN "LIQUIDATION"
    ELSE "MIXED"

\* a / b rounded to a whole number, a tie going to the even one (b > 0)
RoundHalfEven(a, b) ==
    LET q == a \div b
        r == a % b
    IN  IF 2 * r < b THEN q
        ELSE IF 2 * r > b THEN q + 1
        ELSE IF q % 2 = 0 THEN q ELSE q + 1

RECURSIVE SumOfMomentum(_)
SumOfMomentum(group) ==
    IF group = <<>> THEN 0 ELSE Head(group).momentum + SumOfMomentum(Tail(group))

\* round(sum(r["momentum"] for r in group) / len(group), 1) if group else 0,
\* in tenths
AverageMomentum(group) ==
    IF group = <<>> THEN 0
    ELSE RoundHalfEven(SumOfMomentum(group), Len(group))

\* round(breadth, 1), in tenths of a percent
RoundedBreadth(breadth) == RoundHalfEven(breadth.num * 10, breadth.den)

\* The regime of api_signals for the collected results: the label, the
\* average momenta (tenths) and the breadths (tenths of a percent).
RegimeOf(results) ==
    LET risk_on == OfClass(results, "risk-on")
        risk_off == OfClass(results, "risk-off")
    IN  [label |-> regime_label(Breadth(risk_on), Breadth(risk_off)),
         risk_on_avg_mom |-> AverageMomentum(risk_on),
         risk_off_avg_mom |-> AverageMomentum(risk_off),
         risk_on_breadth |-> RoundedBreadth(Breadth(risk_on)),
         risk_off_breadth |-> RoundedBreadth(Breadth(risk_off))]

\* _compute_signals_for_etf without the test for the number of bars.
_compute_signals_for_any_length(cache, now, ticker, reply) ==
    LET fetch == _fetch_mboum(cache, now, ticker, "1d", reply)
    IN  [sig |-> IF fetch.kind = "raise" THEN Nothing
                 ELSE [kind |-> "sig", ticker |-> ticker,
                       risk_class |-> RISK_CLASS[ticker], asof |-> fetch.value.asof,
                       momentum |-> fetch.value.momentum],
         cache |-> fetch.cache, read |-> fetch.read]

\* _compute_signals_for_etf(ticker, description).  Of the signal the model
\* keeps the ETF, its risk class and the records it was computed from.
_compute_signals_for_etf(cache, now, ticker, reply) ==
    LET fetch == _fetch_mboum(cache, now, ticker, "1d", reply)
    IN  [sig |-> IF fetch.kind = "raise" THEN Nothing
                 ELSE IF fetch.value.len < 50 THEN Nothing
                 ELSE [kind |-> "sig", ticker |-> ticker,
                       risk_class |-> RISK_CLASS[ticker], asof |-> fetch.value.asof,
                       momentum |-> fetch.value.momentum],
         cache |-> fetch.cache, read |-> fetch.read]

\* The two loops of api_signals: the signals of the ETFs of a registry, in
\* its order, each tagged with the group.
RECURSIVE ComputeGroup(_, _, _, _, _)
ComputeGroup(registry, group, cache, now, replies) ==
    IF registry = <<>> THEN [results |-> <<>>, cache |-> cache, reads |-> <<>>]
    ELSE LET first == _compute_signals_for_etf(cache, now, Head(registry),
                                               replies[Head(registry)])
             rest == ComputeGroup(Tail(registry), group, first.cache, now, replies)
         IN  [results |-> (IF first.sig.kind = "None" THEN <<>>
                           ELSE <<[ticker |-> first.sig.ticker,
                                   risk_class |-> first.sig.risk_class,
                                   asof |-> first.sig.asof,
                                   momentum |-> first.sig.momentum,
                                   group |-> group]>>) \o rest.results,
              cache |-> rest.cache,
              reads |-> <<first.read>> \o rest.reads]

\* The loop of api_holdings and of api_intl_holdings.
RECURSIVE HoldingsOf(_, _, _, _)
HoldingsOf(registry, cache, now, replies) ==
    IF registry = <<>> THEN [result |-> <<>>, cache |-> cache, reads |-> <<>>]
    ELSE LET first == _fetch_holdings(cache, now, Head(registry), replies[Head(registry)])
             rest == HoldingsOf(Tail(registry), first.cache, now, replies)
         IN  [result |-> <<<<Head(registry), first.value>>>> \o rest.result,
              cache |-> rest.cache,
              reads |-> <<first.read>> \o rest.reads]

\* Time passes.
Tick(d) ==
    /\ clock.ticks < MaxTicks
    /\ clock' = [now |-> clock.now + d, ticks |-> clock.ticks + 1]
    /\ UNCHANGED <<_chart_cache, _signals_cache, _holdings_cache,
                   dashboard_chart_cache, served>>
    /\ UNCHANGED <<storeVars, codecVars, rankVars, httpVars, calcVars, raceVars>>

\* app.py GET /api/chart/<ticker>?interval=&range=
api_chart_data(ticker, interval, range_period) ==
    /\ served.seq < MaxRequests
    /\ \E reply \in MboumReplies :
          LET fetch == _fetch_mboum(_chart_cache, clock.now, ticker, interval, reply)
          IN  /\ _chart_cache' = fetch.cache
              /\ served' = ChartResponse("api_chart_data", served.seq + 1, fetch,
                                         range_period, clock.now)
    /\ UNCHANGED <<clock, _signals_cache, _holdings_cache, dashboard_chart_cache>>
    /\ UNCHANGED <<storeVars, codecVars, rankVars, httpVars, calcVars, raceVars>>

\* sector_dashboard.py GET /api/chart/<ticker>?interval=&range=
dashboard_api_chart_data(ticker, interval, range_period) ==
    /\ served.seq < MaxRequests
    /\ \E reply \in MboumReplies :
          LET fetch == dashboard_fetch_mboum(dashboard_chart_cache, clock.now, ticker,
                                             interval, reply)
          IN  /\ dashboard_chart_cache' = fetch.cache
              /\ served' = ChartResponse("dashboard_api_chart_data", served.seq + 1,
                                         fetch, range_period, clock.now)
    /\ UNCHANGED <<clock, _chart_cache, _signals_cache, _holdings_cache>>
    /\ UNCHANGED <<storeVars, codecVars, rankVars, httpVars, calcVars, raceVars>>

\* GET /api/signals.  Of the payload the model keeps the signals of the ETFs
\* and the label, breadths and average momenta of the regime;
\* the recomputation counts as failed when every fetch of it raised.
api_signals ==
    /\ served.seq < MaxRequests
    /\ \E replies \in [Registered -> MboumReplies] :
          LET now == clock.now
              had == _signals_cache.data.kind # "None"
              before == IF had THEN StoredEntry(_signals_cache) ELSE NoEntry
          IN  IF had /\ (now - _signals_cache.fetched_at) < SIGNALS_CACHE_TTL
              THEN /\ served' = [route |-> "api_signals",
                                 seq |-> served.seq + 1, status |-> 200,
                                 body |-> _signals_cache.data,
                                 reads |-> <<ReadLog("signals", <<>>, now, had, before,
                                                     FALSE, None, "return",
                                                     _signals_cache.data, before)>>]
                   /\ UNCHANGED <<_chart_cache, _signals_cache>>
              ELSE \E sector \in {ComputeGroup(ETF_REGISTRY, "sector", _chart_cache, now,
                                                 replies)} :
                   \E intl \in {ComputeGroup(INTL_REGISTRY, "intl", sector.cache, now,
                                               replies)} :
                   \E payload \in {[kind |-> "payload",
                                     regime |-> RegimeOf(sector.results \o intl.results),
                                     etfs |-> sector.results \o intl.results]} :
                   LET fetches == sector.reads \o intl.reads
                       entry == [data |-> payload, fetched_at |-> now]
                       outcome == IF \A i \in 1..Len(fetches) : fetches[i].kind = "raise"
                                  THEN "error" ELSE "ok"
                   IN  /\ _chart_cache' = intl.cache
                       /\ _signals_cache' = entry
                       /\ served' = [route |-> "api_signals",
                                     seq |-> served.seq + 1, status |-> 200,
                                     body |-> payload,
                                     reads |-> <<ReadLog("signals", <<>>, now, had,
                                                         before, TRUE, outcome, "return",
                                                         payload, StoredEntry(entry))>>
                                               \o fetches]
    /\ UNCHANGED <<clock, _holdings_cache, dashboard_chart_cache>>
    /\ UNCHANGED <<storeVars, codecVars, rankVars, httpVars, calcVars, raceVars>>

\* GET /api/holdings
api_holdings ==
    /\ served.seq < MaxRequests
    /\ \E replies \in [Registered -> YahooReplies] :
          LET all == HoldingsOf(ETF_REGISTRY, _holdings_cache, clock.now, replies)
          IN  /\ _holdings_cache' = all.cache
              /\ served' = [route |-> "api_holdings",
                            seq |-> served.seq + 1, status |-> 200,
                            body |-> all.result, reads |-> all.reads]
    /\ UNCHANGED <<clock, _chart_cache, _signals_cache, dashboard_chart_cache>>
    /\ UNCHANGED <<storeVars, codecVars, rankVars, httpVars, calcVars, raceVars>>

\* GET /api/intl-holdings
api_intl_holdings ==
    /\ served.seq < MaxRequests
    /\ \E replies \in [Registered -> YahooReplies] :
          LET all == HoldingsOf(INTL_REGISTRY, _holdings_cache, clock.now, replies)
          IN  /\ _holdings_cache' = all.cache
              /\ served' = [route |-> "api_intl_holdings",
                            seq |-> served.seq + 1, status |-> 200,
                            body |-> all.result, reads |-> all.reads]
    /\ UNCHANGED <<clock, _chart_cache, _signals_cache, dashboard_chart_cache>>
    /\ UNCHANGED <<storeVars, codecVars, rankVars, httpVars, calcVars, raceVars>>

\* The requests the model makes for charts.
ChartTickers == { <<"g", "l", "d">> }

Intervals == {"1d", "1wk"}

Ranges == {"1mo", "max"}

CacheNext ==
    \/ \E d \in Deltas : Tick(d)
    \/ \E t \in ChartTickers, i \in Intervals, r \in Ranges : api_chart_data(t, i, r)
    \/ \E t \in ChartTickers, r \in Ranges : dashboard_api_chart_data(t, "1d", r)
    \/ api_signals
    \/ api_holdings
    \/ api_intl_holdings

InitCache == StoreInit /\ CodecIdle /\ RankIdle /\ HttpIdle /\ CacheIdle /\ CalcIdle

SpecCache == InitCache /\ [][CacheNext]_vars

-----------------------------------------------------------------------------
(* Claims about the snapshot caches                                        *)

\* The reads of the snapshot caches that the last request made.
IsCacheRead(i) ==
    /\ served.route # None
    /\ i \in 1..Len(served.reads)
    /\ served.reads[i].cache \in {"chart", "dashboard_chart", "signals", "holdings"}

TimeToLive(cache) ==
    IF cache = "signals" THEN SIGNALS_CACHE_TTL
    ELSE IF cache = "holdings" THEN HOLDINGS_CACHE_TTL
    ELSE CHART_CACHE_TTL

\* The entry the read found is younger than the cache's TTL.
Fresh(r) == r.had /\ (r.now - r.before.stored_at) < TimeToLive(r.cache)

\* C3: a read of a snapshot cache that finds an entry younger than the TTL
\* returns the cached value, calls no data source and leaves the entry; a
\* read that finds no entry, or one whose age has reached the TTL, calls the
\* data source and, when that succeeds, returns the fresh value and stores it
\* with the current time.  So no entry is served past its TTL.
C3_TimeToLive ==
    \A i \in 1..MaxRequests * 4 :
        IsCacheRead(i) =>
            LET r == served.reads[i]
            IN  /\ Fresh(r) => /\ ~r.called
                               /\ r.kind = "return"
                               /\ r.value = r.before.data
                               /\ r.after = r.before
                /\ ~Fresh(r) => /\ r.called
                                /\ r.outcome = "ok" =>
                                       /\ r.kind = "return"
                                       /\ r.after = [data |-> r.value, stored_at |-> r.now]

\* A payload without signals, a list without items.
IsEmpty(cache, data) == IF cache = "signals" THEN data.etfs = <<>> ELSE data.len = 0

\* C4: when the data source fails a read that needed it, the caller gets the
\* stale value if the cache held one and an empty or error result only if it
\* held none, and a non-empty value the cache held stays in it.
C4_StaleOnFailure ==
    \A i \in 1..MaxRequests * 4 :
        IsCacheRead(i) =>
            LET r == served.reads[i]
            IN  (r.called /\ r.outcome # "ok") =>
                    /\ r.had => r.kind = "return" /\ r.value = r.before.data
                    /\ (r.had /\ ~IsEmpty(r.cache, r.before.data)) => r.after = r.before
                    /\ ~r.had => r.kind = "raise" \/ IsEmpty(r.cache, r.value)

\* The signals endpoint on its own: requests for the batch as time passes.
SignalsNext ==
    \/ \E d \in Deltas : Tick(d)
    \/ api_signals

InitSignals == StoreInit /\ CodecIdle /\ RankIdle /\ HttpIdle /\ CacheIdle /\ CalcIdle

SpecSignals == InitSignals /\ [][SignalsNext]_vars

\* The registry in the order api_signals walks it, and the group of each.
Walk == ETF_REGISTRY \o INTL_REGISTRY

GroupOf(k) == IF k <= Len(ETF_REGISTRY) THEN "sector" ELSE "intl"

\* api_signals recomputed the batch on the last request.
Recomputed ==
    /\ served.route = "api_signals"
    /\ served.reads[1].called

\* C16: an instrument whose history has fewer than 50 bars, is empty or
\* cannot be fetched gets no signal and causes no error: the batch is
\* answered with the signals of exactly the other instruments, in the order
\* of the registry, each computed from the records its fetch returned.
C16_InsufficientHistory ==
    Recomputed =>
        LET fetch(k) == served.reads[k + 1]
            Enough(k) == fetch(k).kind = "return" /\ fetch(k).value.len >= 50
            SignalOf(k) == [ticker |-> Walk[k], risk_class |-> RISK_CLASS[Walk[k]],
                            asof |-> fetch(k).value.asof,
                            momentum |-> fetch(k).value.momentum, group |-> GroupOf(k)]
            etfs == served.body.etfs
        IN  /\ served.status = 200
            /\ Len(served.reads) = Len(Walk) + 1
            /\ Len(etfs) = Cardinality({k \in 1..Len(Walk) : Enough(k)})
            /\ \A k \in 1..Len(Walk) :
                  /\ fetch(k).key[1] = Walk[k]
                  /\ Enough(k) => \E j \in 1..Len(etfs) : etfs[j] = SignalOf(k)
                  /\ ~Enough(k) => \A j \in 1..Len(etfs) : etfs[j].ticker # Walk[k]

\* C16 witness: in one batch GLD came with 49 bars and EWJ with 50: the
\* batch holds the signal of EWJ alone.
C16_Witness ==
    /\ Recomputed
    /\ served.reads[2].kind = "return" /\ served.reads[2].value.len = 49
    /\ served.reads[3].kind = "return" /\ served.reads[3].value.len = 50
    /\ Len(served.body.etfs) = 1
    /\ served.body.etfs[1].ticker = EWJ

\* The last request was a batch of signals whose payload has no signal of
\* the class.
NoSignalOf(class) ==
    /\ served.route = "api_signals"
    /\ \A j \in 1..Len(served.body.etfs) : served.body.etfs[j].risk_class # class

\* C29: in the payload of api_signals a risk class without a signal has
\* breadth 0 and average momentum 0, and a payload without any signal has the
\* label LIQUIDATION and an empty list; the payload a request computed is the
\* entry of the signals cache, stamped with the time of the request, and a
\* request that finds an entry younger than the TTL answers with it and
\* fetches nothing.
C29_EmptyBatch ==
    served.route = "api_signals" =>
        LET reported == served.body.regime
            read == served.reads[1]
        IN  /\ served.status = 200
            /\ NoSignalOf("risk-on") =>
                   reported.risk_on_breadth = 0 /\ reported.risk_on_avg_mom = 0
            /\ NoSignalOf("risk-off") =>
                   reported.risk_off_breadth = 0 /\ reported.risk_off_avg_mom = 0
            /\ served.body.etfs = <<>> => reported.label = "LIQUIDATION"
            /\ read.called =>
                   /\ _signals_cache.data = served.body
                   /\ _signals_cache.fetched_at = read.now
            /\ (read.had /\ read.now - read.before.stored_at < SIGNALS_CACHE_TTL) =>
                   /\ Len(served.reads) = 1
                   /\ ~read.called
                   /\ served.body = read.before.data
                   /\ _signals_cache.data = served.body

\* C29 witness: a request is answered from the cache with a payload that
\* has no signal: label LIQUIDATION, both breadths and average momenta 0.
C29_Witness ==
    /\ served.route = "api_signals"
    /\ served.reads[1].had /\ ~served.reads[1].called
    /\ served.body.etfs = <<>>
    /\ served.body.regime = [label |-> "LIQUIDATION",
                             risk_on_avg_mom |-> 0, risk_off_avg_mom |-> 0,
                             risk_on_breadth |-> 0, risk_off_breadth |-> 0]

-----------------------------------------------------------------------------
(* Probabilities: prob_itm and prob_profit of app.py                       *)

\* norm.cdf(d2) * 100 or norm.cdf(-d2) * 100, where d2 comes from the
\* arguments: a number the model leaves as the term.
NormCdf(otype, spot, strike, tte, iv) ==
    [kind |-> "norm.cdf", of |-> IF otype = "call" THEN "d2" ELSE "-d2",
     spot |-> spot, strike |-> strike,
     tte |-> tte, iv |-> iv]

\* prob_itm(otype, spot, strike, tte, iv): spot / strike on Python numbers
\* raises when strike is 0.
prob_itm(otype, spot, strike, tte, iv) ==
    IF tte <= 0 \/ iv <= 0 THEN Number(0)
    ELSE IF strike = 0 THEN ZeroDivisionError
    ELSE NormCdf(otype, spot, strike, tte, iv)

\* prob_profit without the guard for the premium.
prob_profit_unguarded(otype, spot, strike, premium, tte, iv) ==
    prob_itm(otype, spot,
             IF otype = "call" THEN strike + premium ELSE strike - premium, tte, iv)

\* prob_profit(otype, spot, strike, premium, tte, iv)
prob_profit(otype, spot, strike, premium, tte, iv) ==
    IF premium <= 0 THEN Number(0)
    ELSE LET be == IF otype = "call" THEN strike + premium ELSE strike - premium
         IN  prob_itm(otype, spot, be, tte, iv)

\* The arguments: prices in dollars, time to expiry in days of a year,
\* volatility in percent; zero and negative ones among them.
OptionTypes == {"call", "put"}

Spots == {0, 100}

Strikes == {0, 100}

Premiums == {-1, 0, 5, 100}

TimesToExpiry == {-1, 0, 30}

Volatilities == {-1, 0, 25}

ProbInit ==
    prob \in [kind : {"pending"}, otype : OptionTypes, spot : Spots, strike : Strikes,
              premium : Premiums, tte : TimesToExpiry, iv : Volatilities,
              itm : {[kind |-> "pending"]}, profit : {[kind |-> "pending"]}]

\* The caller (api_options, analyze_options) asks for both probabilities.
ProbCompute ==
    /\ prob.kind = "pending"
    /\ prob' = [prob EXCEPT
                   !.kind = "done",
                   !.itm = prob_itm(prob.otype, prob.spot, prob.strike, prob.tte, prob.iv),
                   !.profit = prob_profit(prob.otype, prob.spot, prob.strike,
                                          prob.premium, prob.tte, prob.iv)]
    /\ UNCHANGED <<twin, bars, series, contract, signal, regime, storeVars, codecVars, rankVars, httpVars, cacheVars, raceVars>>

InitProb ==
    StoreInit /\ CodecIdle /\ RankIdle /\ HttpIdle /\ CacheIdle /\ ProbInit
        /\ ScoreIdle /\ RegimeIdle /\ RaceIdle /\ TwinIdle /\ BarsIdle /\ SeriesIdle /\ ContractIdle

SpecProb == InitProb /\ [][ProbCompute]_vars

-----------------------------------------------------------------------------
(* Claims about the probabilities                                          *)

\* C13: prob_itm returns 0 whenever the time to expiry or the volatility is
\* not positive, prob_profit returns 0 whenever the premium is not positive,
\* and also when the premium is positive but the time to expiry or the
\* volatility is not; for every option type, spot and strike, 0 included,
\* and without raising.
C13_ZeroOnDegenerateInput ==
    prob.kind = "done" =>
        /\ (prob.tte <= 0 \/ prob.iv <= 0) => prob.itm = Number(0)
        /\ prob.premium <= 0 => prob.profit = Number(0)
        /\ (prob.premium > 0 /\ (prob.tte <= 0 \/ prob.iv <= 0))
           => prob.profit = Number(0)

\* C13 witness: both were asked for a put with spot 0, strike 0, a positive
\* premium and no time left, and both returned 0.
C13_Witness ==
    /\ prob.kind = "done"
    /\ prob.otype = "put" /\ prob.spot = 0 /\ prob.strike = 0
    /\ prob.premium = 5 /\ prob.tte = 0 /\ prob.iv = 25
    /\ prob.itm = Number(0) /\ prob.profit = Number(0)

-----------------------------------------------------------------------------
(***************************************************************************)
(* The momentum score of _compute_signals_for_etf (app.py).  The           *)
(* indicators (RSI, deviation from the 21-day EMA in percent, 1-month      *)
(* return in percent) are whole numbers; a score is counted in units of    *)
(* 1/Scale, and Scale is a multiple of every divisor of the arithmetic, so *)
(* that each division below is exact.  The momentum is counted in tenths.  *)
(***************************************************************************)
Scale == 20 * 30 * 10

\* _clamp without its bounds.
_clamp_unbounded(val, lo, hi) == val

\* max(lo, min(hi, val))
_clamp(val, lo, hi) ==
    LET capped == IF val < hi THEN val ELSE hi
    IN  IF capped > lo THEN capped ELSE lo

\* val, lo and hi are whole numbers; the result is a score.
_linear_score(val, lo, hi) ==
    IF hi = lo
    THEN 5 * Scale
    ELSE _clamp(Scale + (9 * (val - lo) * Scale) \div (hi - lo), Scale, 10 * Scale)

\* The rsi_score of _compute_signals_for_etf.
rsi_score(rsi) ==
    LET banded ==
            IF rsi < 30
            THEN _clamp((_linear_score(rsi, 0, 30) * 2) \div 10, Scale, 2 * Scale)
            ELSE IF rsi < 50
            THEN 3 * Scale + ((rsi - 30) * Scale) \div 20
            ELSE IF rsi < 70
            THEN 5 * Scale + (2 * (rsi - 50) * Scale) \div 20
            ELSE 7 * Scale + (3 * (rsi - 70) * Scale) \div 30
    IN  _clamp(banded, Scale, 10 * Scale)

\* round(score, 1): the nearest tenth, a tie going to the even tenth.
round1(score) ==
    LET tenth == Scale \div 10
        q == score \div tenth
        r == score % tenth
    IN  IF 2 * r < tenth THEN q
        ELSE IF 2 * r > tenth THEN q + 1
        ELSE IF q % 2 = 0 THEN q ELSE q + 1

\* momentum = round(rsi_score * 0.4 + ema_score * 0.3 + ret_score * 0.3, 1)
momentum_of(rsi, pct_from_ema, ret_1m) ==
    round1((4 * rsi_score(rsi)
            + 3 * _linear_score(pct_from_ema, -10, 10)
            + 3 * _linear_score(ret_1m, -15, 15)) \div 10)

\* _calc_rsi returns a number of [0, 100].
RsiReadings == 0..100

\* With positive prices a deviation or a return is above -100 percent and
\* has no upper limit.
Deviations == {-99, -11, -10, 0, 10, 11, 1000}

Returns == {-99, -16, -15, 0, 15, 16, 1000}

ScoreInit ==
    signal \in [kind : {"pending"}, rsi : RsiReadings, pct_from_ema : Deviations,
                ret_1m : Returns, rsi_score : {None}, ema_score : {None},
                ret_score : {None}, momentum : {None}]

ScoreCompute ==
    /\ signal.kind = "pending"
    /\ signal' = [signal EXCEPT
                     !.kind = "done",
                     !.rsi_score = rsi_score(signal.rsi),
                     !.ema_score = _linear_score(signal.pct_from_ema, -10, 10),
                     !.ret_score = _linear_score(signal.ret_1m, -15, 15),
                     !.momentum = momentum_of(signal.rsi, signal.pct_from_ema,
                                              signal.ret_1m)]
    /\ UNCHANGED <<twin, bars, series, contract, prob, regime, storeVars, codecVars, rankVars, httpVars, cacheVars, raceVars>>

InitScore ==
    StoreInit /\ CodecIdle /\ RankIdle /\ HttpIdle /\ CacheIdle /\ ProbIdle
        /\ ScoreInit /\ RegimeIdle /\ RaceIdle /\ TwinIdle /\ BarsIdle /\ SeriesIdle /\ ContractIdle

SpecScore == InitScore /\ [][ScoreCompute]_vars

\* A score of [1, 10].
InScoreRange(score) == Scale <= score /\ score <= 10 * Scale

\* C17: the momentum is the weighted sum 0.4 x RSI score + 0.3 x EMA score +
\* 0.3 x return score rounded to one decimal, each of the three scores lies
\* in [1, 10], and so does the momentum, whatever the indicators are.
C17_MomentumInRange ==
    signal.kind = "done" =>
        /\ InScoreRange(signal.rsi_score)
        /\ InScoreRange(signal.ema_score)
        /\ InScoreRange(signal.ret_score)
        /\ signal.momentum = round1((4 * signal.rsi_score + 3 * signal.ema_score
                                     + 3 * signal.ret_score) \div 10)
        /\ 10 <= signal.momentum /\ signal.momentum <= 100

\* C17 witness: the three indicators are at their extremes on opposite
\* sides, and a momentum came out of them.
C17_Witness ==
    /\ signal.kind = "done"
    /\ signal.rsi = 100 /\ signal.pct_from_ema = 1000 /\ signal.ret_1m = -99
    /\ signal.rsi_score = 10 * Scale /\ signal.ema_score = 10 * Scale
    /\ signal.ret_score = Scale
    /\ signal.momentum = 73

\* The regime of an RSI: [0,30), [30,50), [50,70) or [70,100].
RsiRegime(rsi) == IF rsi < 30 THEN 1 ELSE IF rsi < 50 THEN 2 ELSE IF rsi < 70 THEN 3 ELSE 4

\* C25: the RSI score maps [0,30) linearly onto [1,2], [30,50) onto [3,4],
\* [50,70) onto [5,7] and [70,100] onto [7,10], and within a regime a
\* strictly larger RSI has a strictly larger score.
C25_PiecewiseLinear ==
    signal.kind = "done" =>
        LET rsi == signal.rsi
            score == signal.rsi_score
        IN  /\ RsiRegime(rsi) = 1 => 30 * score = 30 * Scale + rsi * Scale
            /\ RsiRegime(rsi) = 2 => 20 * score = 60 * Scale + (rsi - 30) * Scale
            /\ RsiRegime(rsi) = 3 => 20 * score = 100 * Scale + 2 * (rsi - 50) * Scale
            /\ RsiRegime(rsi) = 4 => 30 * score = 210 * Scale + 3 * (rsi - 70) * Scale
            /\ \A lower \in RsiReadings :
                   (lower < rsi /\ RsiRegime(lower) = RsiRegime(rsi))
                   => rsi_score(lower) < score

-----------------------------------------------------------------------------
(***************************************************************************)
(* The market regime of api_signals (app.py): the breadth of each risk     *)
(* class and the label.  A breadth is the exact rational [num, den] with   *)
(* den > 0; a momentum is counted in tenths.                               *)
(***************************************************************************)
MaxResults == 5

RiskClasses == {"risk-on", "risk-off", "neutral"}

\* A momentum just below and at the threshold of 5.5.
Momenta == {54, 55}

\* The collected signals of one batch: any number of instruments of any class.
ResultLists(n) == [1..n -> [risk_class : RiskClasses, momentum : Momenta]]

RegimeInit ==
    \E n \in 0..MaxResults :
        regime \in [kind : {"pending"}, results : ResultLists(n),
                    ro_breadth : {None}, rf_breadth : {None}, label : {None}]

RegimeCompute ==
    /\ regime.kind = "pending"
    /\ LET risk_on == OfClass(regime.results, "risk-on")
           risk_off == OfClass(regime.results, "risk-off")
           ro_breadth == Breadth(risk_on)
           rf_breadth == Breadth(risk_off)
       IN  regime' = [regime EXCEPT
                         !.kind = "done",
                         !.ro_breadth = ro_breadth,
                         !.rf_breadth = rf_breadth,
                         !.label = regime_label(ro_breadth, rf_breadth)]
    /\ UNCHANGED <<twin, bars, series, contract, prob, signal, storeVars, codecVars, rankVars, httpVars, cacheVars, raceVars>>

InitRegime ==
    StoreInit /\ CodecIdle /\ RankIdle /\ HttpIdle /\ CacheIdle /\ ProbIdle
        /\ ScoreIdle /\ RegimeInit /\ RaceIdle /\ TwinIdle /\ BarsIdle /\ SeriesIdle /\ ContractIdle

SpecRegime == InitRegime /\ [][RegimeCompute]_vars

\* The instruments of a class in a batch, and those of them with a momentum
\* of at least 5.5.
Members(class) ==
    { i \in 1..Len(regime.results) : regime.results[i].risk_class = class }

Strong(class) == { i \in Members(class) : regime.results[i].momentum >= 55 }

\* The breadth of a class is above / below t percent; an empty class has
\* breadth 0.
BreadthOver(class, t) ==
    Cardinality(Strong(class)) * 100 > t * Cardinality(Members(class))

BreadthUnder(class, t) ==
    IF Members(class) = {}
    THEN 0 < t
    ELSE Cardinality(Strong(class)) * 100 < t * Cardinality(Members(class))

\* C18: the label is RISK-ON when the risk-on breadth is above 50 and the
\* risk-off breadth below 50; else RISK-OFF when the risk-off breadth is
\* above 50 and the risk-on breadth below 50; else LIQUIDATION when both are
\* below 40; else MIXED.  The breadths are percentages of [0, 100] and the
\* label is one of the four.
C18_RegimeLabel ==
    regime.kind = "done" =>
        LET on == "risk-on"
            off == "risk-off"
            r1 == BreadthOver(on, 50) /\ BreadthUnder(off, 50)
            r2 == BreadthOver(off, 50) /\ BreadthUnder(on, 50)
            r3 == BreadthUnder(on, 40) /\ BreadthUnder(off, 40)
        IN  /\ regime.label \in {"RISK-ON", "RISK-OFF", "LIQUIDATION", "MIXED"}
            /\ regime.label = "RISK-ON" <=> r1
            /\ regime.label = "RISK-OFF" <=> (~r1 /\ r2)
            /\ regime.label = "LIQUIDATION" <=> (~r1 /\ ~r2 /\ r3)
            /\ regime.label = "MIXED" <=> (~r1 /\ ~r2 /\ ~r3)
            /\ \A b \in {regime.ro_breadth, regime.rf_breadth} :
                   0 <= b.num /\ b.num <= 100 * b.den

\* C18 witness: one of two risk-on instruments is strong and the only
\* risk-off instrument is weak: the breadths are 50 and 0, no rule of the
\* first three applies and the label is MIXED.
C18_Witness ==
    /\ regime.kind = "done"
    /\ Cardinality(Members("risk-on")) = 2
    /\ Cardinality(Strong("risk-on")) = 1
    /\ Cardinality(Members("risk-off")) = 1
    /\ Strong("risk-off") = {}
    /\ regime.label = "MIXED"

-----------------------------------------------------------------------------
(***************************************************************************)
(* Overlapping calls on the caches of app.py.  The server handles each     *)
(* request on a thread of its own, so a call is a sequence of steps, one   *)
(* per access to the shared dicts, and the steps of two calls interleave.  *)
(***************************************************************************)

\* _fetch_mboum(ticker, "1d") starts: the entry is looked up and, when it is
\* fresh, returned; otherwise the request to Mboum is sent.
ChartCall(c, ticker) ==
    /\ callers[c].pc = "idle"
    /\ LET cache_key == <<upper(ticker), "1d">>
           hit == /\ cache_key \in DOMAIN _chart_cache
                  /\ (clock.now - _chart_cache[cache_key].fetched_at) < CHART_CACHE_TTL
       IN  callers' = [callers EXCEPT ![c] =
               IF hit
               THEN [IdleCaller EXCEPT !.pc = "done", !.route = "chart",
                                       !.key = cache_key, !.now = clock.now,
                                       !.kind = "return",
                                       !.value = _chart_cache[cache_key].data]
               ELSE [IdleCaller EXCEPT !.pc = "chart_fetch", !.route = "chart",
                                       !.key = cache_key, !.now = clock.now,
                                       !.missed = TRUE]]
    /\ UNCHANGED <<storeVars, codecVars, rankVars, httpVars, cacheVars, calcVars>>

\* Mboum answers: the records are stored with the time of the store, in one
\* assignment of the entry, and returned; or the call raises.
ChartFetched(c) ==
    /\ callers[c].pc = "chart_fetch"
    /\ \E reply \in MboumReplies :
          IF reply.outcome # "ok"
          THEN /\ callers' = [callers EXCEPT ![c].pc = "done", ![c].kind = "raise",
                                             ![c].value = Raised(reply.outcome)]
               /\ UNCHANGED _chart_cache
          ELSE LET records == BarsOf(clock.now, reply)
                   entry == [data |-> records, fetched_at |-> clock.now]
               IN  /\ _chart_cache' = (callers[c].key :> entry) @@ _chart_cache
                   /\ callers' = [callers EXCEPT ![c].pc = "done",
                                      ![c].kind = "return", ![c].value = records,
                                      ![c].stored = entry]
    /\ UNCHANGED <<clock, _signals_cache, _holdings_cache, dashboard_chart_cache, served>>
    /\ UNCHANGED <<storeVars, codecVars, rankVars, httpVars, calcVars>>

\* api_signals starts: it takes the time and looks the payload up.
SignalsCall(c) ==
    /\ callers[c].pc = "idle"
    /\ LET hit == /\ _signals_cache.data.kind # "None"
                  /\ (clock.now - _signals_cache.fetched_at) < SIGNALS_CACHE_TTL
       IN  callers' = [callers EXCEPT ![c] =
               IF hit
               THEN [IdleCaller EXCEPT !.pc = "done", !.route = "signals",
                                       !.now = clock.now, !.kind = "return",
                                       !.value = _signals_cache.data]
               ELSE [IdleCaller EXCEPT !.pc = "signals_compute", !.route = "signals",
                                       !.now = clock.now, !.missed = TRUE]]
    /\ UNCHANGED <<storeVars, codecVars, rankVars, httpVars, cacheVars, calcVars>>

\* api_signals walks the registries and builds the payload.
SignalsComputed(c) ==
    /\ callers[c].pc = "signals_compute"
    /\ \E replies \in [Registered -> MboumReplies] :
          LET sector == ComputeGroup(ETF_REGISTRY, "sector", _chart_cache, clock.now,
                                     replies)
              intl == ComputeGroup(INTL_REGISTRY, "intl", sector.cache, clock.now,
                                   replies)
              results == sector.results \o intl.results
              payload == [kind |-> "payload", regime |-> RegimeOf(results),
                          etfs |-> results]
          IN  /\ _chart_cache' = intl.cache
              /\ callers' = [callers EXCEPT ![c].pc = "signals_store_data",
                                            ![c].value = payload]
    /\ UNCHANGED <<clock, _signals_cache, _holdings_cache, dashboard_chart_cache, served>>
    /\ UNCHANGED <<storeVars, codecVars, rankVars, httpVars, calcVars>>

\* _signals_cache["data"] = payload
SignalsStoreData(c) ==
    /\ callers[c].pc = "signals_store_data"
    /\ _signals_cache' = [_signals_cache EXCEPT !.data = callers[c].value]
    /\ callers' = [callers EXCEPT ![c].pc = "signals_store_time"]
    /\ UNCHANGED <<clock, _chart_cache, _holdings_cache, dashboard_chart_cache, served>>
    /\ UNCHANGED <<storeVars, codecVars, rankVars, httpVars, calcVars>>

\* _signals_cache["fetched_at"] = now, and the payload is returned
SignalsStoreTime(c) ==
    /\ callers[c].pc = "signals_store_time"
    /\ _signals_cache' = [_signals_cache EXCEPT !.fetched_at = callers[c].now]
    /\ callers' = [callers EXCEPT ![c].pc = "done", ![c].kind = "return",
                       ![c].stored = [data |-> callers[c].value,
                                      fetched_at |-> callers[c].now]]
    /\ UNCHANGED <<clock, _chart_cache, _holdings_cache, dashboard_chart_cache, served>>
    /\ UNCHANGED <<storeVars, codecVars, rankVars, httpVars, calcVars>>

RaceNext ==
    \/ \E d \in Deltas : Tick(d)
    \/ \E c \in Callers, t \in ChartTickers : ChartCall(c, t)
    \/ \E c \in Callers : ChartFetched(c)
    \/ \E c \in Callers : SignalsCall(c)
    \/ \E c \in Callers : SignalsComputed(c)
    \/ \E c \in Callers : SignalsStoreData(c)
    \/ \E c \in Callers : SignalsStoreTime(c)

InitRace == StoreInit /\ CodecIdle /\ RankIdle /\ HttpIdle /\ CacheIdle /\ CalcIdle

SpecRace == InitRace /\ [][RaceNext]_vars

-----------------------------------------------------------------------------
(* Claims about overlapping calls                                          *)

\* The call missed the cache, got its data and has completed.
Refetched(c, route) ==
    /\ callers[c].pc = "done"
    /\ callers[c].route = route
    /\ callers[c].missed
    /\ callers[c].kind = "return"

\* The entry the calls of a route on a key share.
EntryOf(route, key) == IF route = "chart" THEN _chart_cache[key] ELSE _signals_cache

\* C20: when two overlapping calls have both missed the same key and both
\* completed, the cache holds for the key the value and the timestamp that
\* one of the two stored, both of the same call, and each call returned the
\* data it got.
C20_EntryFromOneFetch ==
    \A c1, c2 \in Callers, route \in {"chart", "signals"} :
        ( /\ c1 # c2
          /\ Refetched(c1, route) /\ Refetched(c2, route)
          /\ callers[c1].key = callers[c2].key )
        => /\ \E c \in {c1, c2} : EntryOf(route, callers[c1].key) = callers[c].stored
           /\ \A c \in {c1, c2} : callers[c].value = callers[c].stored.data

-----------------------------------------------------------------------------
(***************************************************************************)
(* One contract of a chain through the row loop of api_options (app.py)    *)
(* and through analyze_options and the unusual-activity table of main      *)
(* (options_analyzer.py).  Prices are counted in cents, implied vol in     *)
(* percent, time to expiry in days of a 365-day year.  A field of the      *)
(* collaborator's JSON is <<>> when it is missing or null, <<x>> otherwise.*)
(***************************************************************************)

\* opt.get(field, 0) or 0
OrZero(field) == IF field = <<>> THEN 0 ELSE field[1]

\* round((bid + ask) / 2, 2) if bid and ask else last
MidOf(bid, ask, last) ==
    IF bid # 0 /\ ask # 0 THEN RoundHalfEven(bid + ask, 2) ELSE last

\* round(p, 1) of a probability: 0.0 stays 0.0, the exception stays, any
\* other number is left as the term.
Rounded(p) ==
    IF p.kind \in {"number", "raise"} THEN p ELSE [kind |-> "round", of |-> p, ndigits |-> 1]

Skipped == [kind |-> "skipped"]

\* The body of the loop of api_options for a parsed contract that is dte
\* days from expiry: the row, or nothing when the contract is discarded.
api_options_row(opt, price, dte) ==
    IF dte < 0 THEN Skipped
    ELSE LET tte == IF dte > 1 THEN dte ELSE 1
             iv_val == OrZero(opt.iv)
             mid == MidOf(opt.bid, opt.ask, opt.last)
         IN  [kind |-> "row", type |-> opt.type, dte |-> dte, strike |-> opt.strike,
              mid |-> mid, volume |-> opt.volume, oi |-> opt.oi, iv |-> iv_val,
              delta |-> opt.delta,
              probITM |-> IF iv_val > 0
                          THEN Rounded(prob_itm(opt.type, price, opt.strike, tte, iv_val))
                          ELSE Number(0),
              probProfit |-> IF iv_val > 0 /\ mid > 0
                             THEN Rounded(prob_profit(opt.type, price, opt.strike, mid,
                                                      tte, iv_val))
                             ELSE Number(0)]

\* abs(r['delta']) * 100, the delta being counted in hundredths
AbsDeltaPercent(delta) == Number(IF delta < 0 THEN 0 - delta ELSE delta)

\* analyze_options for one parsed contract: the row of the returned frame,
\* or nothing when the contract is discarded by min_dte or by the liquidity
\* filter.  The probabilities are computed from the row's dte.
analyze_options_row(opt, price, dte, min_volume, min_oi, min_dte) ==
    IF dte < min_dte THEN Skipped
    ELSE IF ~(opt.volume >= min_volume \/ opt.oi >= min_oi) THEN Skipped
    ELSE LET iv == OrZero(opt.iv)
             mid == MidOf(opt.bid, opt.ask, opt.last)
         IN  [kind |-> "row", type |-> opt.type, dte |-> dte, strike |-> opt.strike,
              mid |-> mid, volume |-> opt.volume, oi |-> opt.oi, iv |-> iv,
              delta |-> opt.delta,
              probITM |-> IF iv > 0
                          THEN Rounded(prob_itm(opt.type, price, opt.strike, dte, iv))
                          ELSE AbsDeltaPercent(opt.delta),
              probProfit |-> IF iv > 0 /\ mid > 0
                             THEN Rounded(prob_profit(opt.type, price, opt.strike, mid,
                                                      dte, iv))
                             ELSE Number(0)]

Infinity == [kind |-> "inf"]

\* The unusual-activity table of main for a row of the frame: whether the
\* row is one of high_ratio or of zero_oi, and its vol_oi_ratio.
unusual_activity(row) ==
    IF row.volume >= 1000 /\ row.oi > 0
       /\ RoundHalfEven(10 * row.volume, row.oi) >= 30
    THEN [listed |-> TRUE,
          vol_oi_ratio |-> [kind |-> "tenths",
                            n |-> RoundHalfEven(10 * row.volume, row.oi)]]
    ELSE IF row.volume >= 2000 /\ row.oi = 0
    THEN [listed |-> TRUE, vol_oi_ratio |-> Infinity]
    ELSE [listed |-> FALSE, vol_oi_ratio |-> Nothing]

\* The contracts: calls and puts around a price of 100.00, from expired to
\* a month out, with and without implied vol, quotes, delta, volume and
\* open interest.
DaysOut == {-1, 0, 1, 30}

ImpliedVols == {<<>>, <<0>>, <<-1>>, <<25>>}

Quotes == {0, 500}

Deltas100 == {0, -60}

Volumes == {0, 300, 1000, 2000, 2960, 3000}

OpenInterests == {0, 100, 1000}

ContractInit ==
    contract \in [kind : {"pending"},
                  opt : [type : OptionTypes, strike : {9500, 10000}, iv : ImpliedVols,
                         bid : Quotes, ask : Quotes, last : {0, 400},
                         delta : Deltas100, volume : Volumes, oi : OpenInterests],
                  price : {10000}, dte : DaysOut,
                  api : {Nothing}, cli : {Nothing}, unusual : {Nothing}]

\* Both programs build their row of the contract; main classifies the
\* analyzer's row.
ContractAnalyse ==
    /\ contract.kind = "pending"
    /\ LET api == api_options_row(contract.opt, contract.price, contract.dte)
           cli == analyze_options_row(contract.opt, contract.price, contract.dte,
                                      1000, 1000, 0)
       IN  contract' = [contract EXCEPT
                           !.kind = "done", !.api = api, !.cli = cli,
                           !.unusual = IF cli.kind = "row" THEN unusual_activity(cli)
                                       ELSE Nothing]
    /\ UNCHANGED <<twin, bars, series, prob, signal, regime, storeVars, codecVars, rankVars, httpVars,
                   cacheVars, raceVars>>

InitContract ==
    StoreInit /\ CodecIdle /\ RankIdle /\ HttpIdle /\ CacheIdle /\ ProbIdle
        /\ ScoreIdle /\ RegimeIdle /\ RaceIdle /\ TwinIdle /\ BarsIdle /\ SeriesIdle /\ ContractInit

SpecContract == InitContract /\ [][ContractAnalyse]_vars

-----------------------------------------------------------------------------
(* Claims about the rows of a contract                                     *)

\* The rows the two programs made of the contract.
OutputRows == {r \in {contract.api, contract.cli} : r.kind = "row"}

\* max(daysToExpiry, 1)
AtLeastOneDay(dte) == IF dte > 1 THEN dte ELSE 1

Breakeven(row) ==
    IF row.type = "call" THEN row.strike + row.mid ELSE row.strike - row.mid

\* The probabilities of a row are those of `days` days to expiry.
PricedWith(row, days) ==
    /\ row.probITM = Rounded(NormCdf(row.type, contract.price, row.strike, days, row.iv))
    /\ row.mid > 0 =>
           row.probProfit = Rounded(NormCdf(row.type, contract.price, Breakeven(row),
                                            days, row.iv))

\* C21: every row of the output has daysToExpiry >= 0, and the probabilities
\* of a row with positive implied vol are computed with max(daysToExpiry, 1)
\* days of time, so that a contract of daysToExpiry 0 is priced with one day.
C21_OneDayFloor ==
    contract.kind = "done" =>
        \A row \in OutputRows :
            /\ row.dte >= 0
            /\ row.iv > 0 => PricedWith(row, AtLeastOneDay(row.dte))

\* C22: a row whose implied vol is not greater than 0 has probITM 0 and
\* probProfit 0, whatever its delta, bid, ask and strike are.
C22_NoVolNoProbability ==
    contract.kind = "done" =>
        \A row \in OutputRows :
            row.iv <= 0 => row.probITM = Number(0) /\ row.probProfit = Number(0)

\* C23: a row of the analyzer's frame is listed as unusual activity exactly
\* when its open interest is positive and its volume at least 3 times the
\* open interest, or its open interest is 0 and its volume at least 2000;
\* the rows of the second kind carry an infinite ratio.
C23_UnusualActivity ==
    (contract.kind = "done" /\ contract.cli.kind = "row") =>
        LET row == contract.cli
            byRatio == row.oi > 0 /\ row.volume >= 3 * row.oi
            byVolume == row.oi = 0 /\ row.volume >= 2000
        IN  /\ contract.unusual.listed <=> (byRatio \/ byVolume)
            /\ byVolume => contract.unusual.vol_oi_ratio = Infinity

-----------------------------------------------------------------------------
(***************************************************************************)
(* _calc_rsi of app.py, on whole closes.  An average is the exact fraction *)
(* [num, den] with den > 0.                                                *)
(***************************************************************************)
Frac(n, d) == [kind |-> "number", num |-> n, den |-> d]

\* (avg * (period - 1) + value) / period
Smooth(avg, value, period) ==
    Frac(avg.num * (period - 1) + value * avg.den, avg.den * period)

\* a / b; Python raises when b is 0.
FracDiv(a, b) ==
    IF b.num = 0 THEN ZeroDivisionError
    ELSE IF b.num > 0 THEN Frac(a.num * b.den, a.den * b.num)
    ELSE Frac(0 - a.num * b.den, 0 - a.den * b.num)

RECURSIVE SumOf(_, _, _)
SumOf(seq, from, to) == IF from > to THEN 0 ELSE seq[from] + SumOf(seq, from + 1, to)

\* The loop over deltas[period:], from index i (1-based) on.
RECURSIVE WilderFrom(_, _, _, _)
WilderFrom(avg, values, i, period) ==
    IF i > Len(values) THEN avg
    ELSE WilderFrom(Smooth(avg, values[i], period), values, i + 1, period)

\* avg_gain and avg_loss of _calc_rsi for len(closes) >= period + 1
WilderAverages(closes, period) ==
    LET deltas == [i \in 1..(Len(closes) - 1) |-> closes[i + 1] - closes[i]]
        gains == [i \in DOMAIN deltas |-> IF deltas[i] > 0 THEN deltas[i] ELSE 0]
        losses == [i \in DOMAIN deltas |-> IF deltas[i] < 0 THEN 0 - deltas[i] ELSE 0]
    IN  [gain |-> WilderFrom(Frac(SumOf(gains, 1, period), period), gains,
                             period + 1, period),
         loss |-> WilderFrom(Frac(SumOf(losses, 1, period), period), losses,
                             period + 1, period)]

\* rs = avg_gain / avg_loss; 100 - (100 / (1 + rs))
RsiOf(avg) ==
    LET rs == FracDiv(avg.gain, avg.loss)
    IN  IF rs.kind = "raise" THEN rs
        ELSE LET onePlus == Frac(rs.den + rs.num, rs.den)
                 quotient == FracDiv(Frac(100, 1), onePlus)
             IN  IF quotient.kind = "raise" THEN quotient
                 ELSE Frac(100 * quotient.den - quotient.num, quotient.den)

\* _calc_rsi without the test for a zero average loss.
_calc_rsi_unguarded(closes, period) ==
    IF Len(closes) < period + 1 THEN Frac(50, 1)
    ELSE RsiOf(WilderAverages(closes, period))

\* _calc_rsi(closes, period)
_calc_rsi(closes, period) ==
    IF Len(closes) < period + 1 THEN Frac(50, 1)
    ELSE LET avg == WilderAverages(closes, period)
         IN  IF avg.loss.num = 0 THEN Frac(100, 1) ELSE RsiOf(avg)

\* The close series: 15 or 17 closes that start at 100 and move by the two
\* steps of one of two pairs, so that rising, flat and falling series and
\* mixtures of gains with losses and with flat days are among them.
SeriesLengths == {15, 17}

StepPairs == { {-1, 2}, {0, 2} }

RECURSIVE Walked(_, _)
Walked(start, steps) ==
    IF steps = <<>> THEN <<start>>
    ELSE <<start>> \o Walked(start + Head(steps), Tail(steps))

SeriesInit ==
    \E n \in SeriesLengths, pair \in StepPairs :
        \E steps \in [1..(n - 1) -> pair] :
            series = [kind |-> "pending", closes |-> Walked(100, steps),
                      rsi |-> Nothing]

\* _compute_signals_for_etf asks for _calc_rsi(closes, 14).
SeriesRsi ==
    /\ series.kind = "pending"
    /\ series' = [series EXCEPT !.kind = "done", !.rsi = _calc_rsi(series.closes, 14)]
    /\ UNCHANGED <<twin, bars, prob, signal, regime, contract, storeVars, codecVars, rankVars,
                   httpVars, cacheVars, raceVars>>

InitSeries ==
    StoreInit /\ CodecIdle /\ RankIdle /\ HttpIdle /\ CacheIdle /\ ProbIdle
        /\ ScoreIdle /\ RegimeIdle /\ RaceIdle /\ TwinIdle /\ BarsIdle /\ ContractIdle /\ SeriesInit

SpecSeries == InitSeries /\ [][SeriesRsi]_vars

\* No close of the series is below the one before it.
NeverFalls == \A i \in 1..(Len(series.closes) - 1) : series.closes[i + 1] >= series.closes[i]

\* C24: for a series of at least 15 closes RSI(14) is a number of [0, 100],
\* computed without a division by zero, and it is exactly 100 when the
\* smoothed average loss is 0, which is when no delta is a loss.
C24_RsiInRange ==
    (series.kind = "done" /\ Len(series.closes) >= 15) =>
        /\ series.rsi.kind = "number"
        /\ series.rsi.den > 0
        /\ 0 <= series.rsi.num
        /\ series.rsi.num <= 100 * series.rsi.den
        /\ NeverFalls => series.rsi = Frac(100, 1)
        /\ NeverFalls <=> WilderAverages(series.closes, 14).loss.num = 0

\* C24 witness: a series of 17 closes with gains and losses, smoothed twice,
\* got an RSI strictly between 0 and 100.
C24_Witness ==
    /\ series.kind = "done"
    /\ Len(series.closes) = 17
    /\ ~NeverFalls
    /\ series.rsi.kind = "number"
    /\ 0 < series.rsi.num
    /\ series.rsi.num < 100 * series.rsi.den

-----------------------------------------------------------------------------
(***************************************************************************)
(* The volume flow of _compute_signals_for_etf (app.py)                    *)
(***************************************************************************)

\* The whole list, where records[-10:] is meant.
AllBars(records) == records

\* records[-10:]
RecentBars(records) ==
    IF Len(records) <= 10 THEN records
    ELSE SubSeq(records, Len(records) - 9, Len(records))

\* sum(r["volume"] for r in recent if r["close"] >= r["open"])
RECURSIVE UpVolume(_)
UpVolume(recent) ==
    IF recent = <<>> THEN 0
    ELSE (IF Head(recent).close >= Head(recent).open THEN Head(recent).volume ELSE 0)
         + UpVolume(Tail(recent))

\* sum(r["volume"] for r in recent)
RECURSIVE TotalVolume(_)
TotalVolume(recent) ==
    IF recent = <<>> THEN 0 ELSE Head(recent).volume + TotalVolume(Tail(recent))

\* up_vol_ratio and flow of _compute_signals_for_etf; 0.58 is 58/100 and
\* 0.42 is 42/100.
flow_of(records) ==
    LET recent == RecentBars(records)
        up_vol == UpVolume(recent)
        total_vol == TotalVolume(recent)
        up_vol_ratio == IF total_vol > 0 THEN Frac(up_vol, total_vol) ELSE Frac(1, 2)
    IN  IF 100 * up_vol_ratio.num > 58 * up_vol_ratio.den THEN "Accum"
        ELSE IF 100 * up_vol_ratio.num < 42 * up_vol_ratio.den THEN "Distrib"
        ELSE "Neutral"

\* A bar that opened at 100.
Bar(close, volume) == [open |-> 100, close |-> close, volume |-> volume]

\* Bars that closed above, at and below their open, with a volume of 0, 21
\* or 29 (two bars of 29 against two of 21 give the ratios 0.58 and 0.42).
BarKinds == { Bar(c, v) : c \in {99, 100, 101}, v \in {0, 21, 29} }

\* Histories of 50 bars: 40 equal older bars of high volume, then the ten
\* most recent, four of them free and six without volume.
OlderBars == { Bar(101, 1000), Bar(99, 1000) }

Quiet == Bar(100, 0)

BarsInit ==
    \E older \in OlderBars, free \in [1..4 -> BarKinds] :
        bars = [kind |-> "pending",
                records |-> [i \in 1..40 |-> older]
                            \o <<free[1], Quiet, Quiet, free[2], Quiet, free[3],
                                 Quiet, Quiet, free[4], Quiet>>,
                flow |-> None]

BarsFlow ==
    /\ bars.kind = "pending"
    /\ bars' = [bars EXCEPT !.kind = "done", !.flow = flow_of(bars.records)]
    /\ UNCHANGED <<twin, prob, signal, regime, contract, series, storeVars, codecVars,
                   rankVars, httpVars, cacheVars, raceVars>>

InitBars ==
    StoreInit /\ CodecIdle /\ RankIdle /\ HttpIdle /\ CacheIdle /\ ProbIdle
        /\ ScoreIdle /\ RegimeIdle /\ RaceIdle /\ TwinIdle /\ ContractIdle /\ SeriesIdle /\ BarsInit

SpecBars == InitBars /\ [][BarsFlow]_vars

\* The ten most recent bars, those of them that closed at or above their
\* open, and the volume of a set of bars.
LastTen == { i \in 1..Len(bars.records) : i > Len(bars.records) - 10 }

UpBars == { i \in LastTen : bars.records[i].close >= bars.records[i].open }

RECURSIVE VolumeOf(_)
VolumeOf(indexes) ==
    IF indexes = {} THEN 0
    ELSE LET i == CHOOSE x \in indexes : TRUE
         IN  bars.records[i].volume + VolumeOf(indexes \ {i})

\* C26: with up the volume of the bars of the last ten that closed at or
\* above their open and total the volume of the last ten, the flow is Accum
\* exactly when up / total > 0.58, Distrib exactly when up / total < 0.42 and
\* Neutral otherwise, and it is Neutral when total is 0.
C26_VolumeFlow ==
    bars.kind = "done" =>
        LET up == VolumeOf(UpBars)
            total == VolumeOf(LastTen)
        IN  /\ bars.flow \in {"Accum", "Distrib", "Neutral"}
            /\ bars.flow = "Accum" <=> (total > 0 /\ 100 * up > 58 * total)
            /\ bars.flow = "Distrib" <=> (total > 0 /\ 100 * up < 42 * total)
            /\ total = 0 => bars.flow = "Neutral"

\* C26 witness: of the last ten bars two of volume 29 closed at or above
\* their open, one of them at its open, and two of volume 21 closed below:
\* the ratio is exactly 0.58 and the flow is Neutral, while the older bars
\* all closed up.
C26_Witness ==
    /\ bars.kind = "done"
    /\ VolumeOf(UpBars) = 58
    /\ VolumeOf(LastTen) = 100
    /\ \E i \in UpBars : bars.records[i].close = 100 /\ bars.records[i].volume = 29
    /\ bars.records[1] = Bar(101, 1000)
    /\ bars.flow = "Neutral"

-----------------------------------------------------------------------------
(***************************************************************************)
(* The endpoints of app.py side by side: the quote and options endpoints   *)
(* on one request thread, and one request to a cached endpoint.            *)
(***************************************************************************)
ServerNext ==
    \/ \E t \in HttpTickers : QuoteRequest("t1", t)
    \/ QuoteFetched("t1")
    \/ QuoteRespond("t1")
    \/ \E t \in OptionsTickers : OptionsRequest("t1", t)
    \/ OptionsQuoteFetched("t1")
    \/ OptionsChainFetched("t1")
    \/ Deliver("t1")
    \/ served.seq = 0 /\ \E t \in ChartTickers, r \in Ranges : api_chart_data(t, "1d", r)
    \/ served.seq = 0 /\ api_signals
    \/ served.seq = 0 /\ api_holdings
    \/ served.seq = 0 /\ api_intl_holdings

InitServer == HttpStoreInit /\ CodecIdle /\ RankIdle /\ HttpIdle /\ CacheIdle /\ CalcIdle

SpecServer == InitServer /\ [][ServerNext]_vars

\* The step is the save of a quote request whose fetch succeeded.
SavesQuote(w) ==
    /\ workers[w].route = "quote"
    /\ workers[w].pc = "quote_fetch"
    /\ workers'[w].pc = "quote_saved"
    /\ workers'[w].outcome = "ok"

\* C28: the store changes only in the step of a quote request whose fetch
\* succeeded, and that step changes only the row of (the symbol in upper
\* case, today): a failed quote fetch, the options endpoint and the chart,
\* signals and holdings endpoints leave the store as it was.
C28_StoreWrittenByQuoteOnly ==
    [][ \/ store' = store
        \/ \E w \in Threads :
              /\ SavesQuote(w)
              /\ \A r \in store : KeyOf(r) # WrittenKey(w) => r \in store'
              /\ \A r \in store' \ store :
                    /\ KeyOf(r) = WrittenKey(w)
                    /\ <<r.iv30, r.price>> = workers'[w].quote ]_vars

\* C28 witness: a quote request recorded SPY's reading of today beside the
\* row of the day before, and a cached endpoint has been served.
C28_Witness ==
    /\ workers["t1"].pc = "quote_saved"
    /\ served.seq = 1
    /\ store = {Yesterday,
                [symbol |-> SPY, date |-> strftime_Ymd(today), iv30 |-> 25,
                 price |-> 105]}

-----------------------------------------------------------------------------
(* The helpers of options_analyzer.py that app.py has too                  *)

\* calculate_iv_rank(current_iv, iv_history)
calculate_iv_rank(current_iv, iv_history) ==
    IF Len(iv_history) < 2 THEN [kind |-> "None"]
    ELSE LET values == [i \in 1..Len(iv_history) |-> iv_history[i][2]]
             iv_min == min(values)
             iv_max == max(values)
         IN  IF iv_max = iv_min THEN Number(50)
             ELSE PercentOf(current_iv - iv_min, iv_max - iv_min)

\* calculate_iv_percentile(current_iv, iv_history)
calculate_iv_percentile(current_iv, iv_history) ==
    IF Len(iv_history) < 2 THEN [kind |-> "None"]
    ELSE LET values == [i \in 1..Len(iv_history) |-> iv_history[i][2]]
             below == Cardinality({i \in 1..Len(values) : values[i] < current_iv})
         IN  PercentOf(below, Len(values))

\* options_analyzer.parse_option_symbol(symbol): the same pattern; the
\* expiration is converted, then the strike, then the dict is built.
analyzer_parse_option_symbol(symbol) ==
    LET n == MatchOCC(symbol)
    IN  IF n = 0 THEN [kind |-> "None"]
        ELSE LET exp_str == SubSeq(symbol, n + 1, n + 6)
                 opt_type == symbol[n + 7]
                 strike_str == SubSeq(symbol, n + 8, n + 15)
                 expiration == strptime_ymd(exp_str)
             IN  IF expiration.kind = "raise" THEN expiration
                 ELSE [kind        |-> "dict",
                       ticker      |-> SubSeq(symbol, 1, n),
                       expiration  |-> strftime_Ymd(expiration.date),
                       option_type |-> IF opt_type = "C" THEN "call" ELSE "put",
                       strike      |-> StrikeOf(strike_str)]

\* options_analyzer.prob_itm(option_type, spot, strike, tte, iv)
analyzer_prob_itm(option_type, spot, strike, tte, iv) ==
    IF tte <= 0 \/ iv <= 0 THEN Number(0)
    ELSE IF strike = 0 THEN ZeroDivisionError
    ELSE IF option_type = "call" THEN NormCdf("call", spot, strike, tte, iv)
    ELSE NormCdf("put", spot, strike, tte, iv)

\* options_analyzer.prob_profit with the breakeven of a call for every type.
analyzer_prob_profit_as_call(option_type, spot, strike, premium, tte, iv) ==
    IF premium <= 0 THEN Number(0)
    ELSE analyzer_prob_itm(option_type, spot, strike + premium, tte, iv)

\* options_analyzer.prob_profit(option_type, spot, strike, premium, tte, iv)
analyzer_prob_profit(option_type, spot, strike, premium, tte, iv) ==
    IF premium <= 0 THEN Number(0)
    ELSE IF option_type = "call"
         THEN analyzer_prob_itm("call", spot, strike + premium, tte, iv)
         ELSE analyzer_prob_itm("put", spot, strike - premium, tte, iv)

\* A call of one helper: its name and arguments, and what the function of
\* app.py and the one of options_analyzer.py returned.
Pending(helper, args) ==
    [kind |-> "pending", helper |-> helper, args |-> args,
     app |-> [kind |-> "pending"], analyzer |-> [kind |-> "pending"]]

\* Option types as the callers pass them, and one that is neither.
TwinOptionTypes == OptionTypes \cup {"straddle"}

ProbArguments ==
    TwinOptionTypes \X Spots \X Strikes \X Premiums \X TimesToExpiry \X Volatilities

TwinInit ==
    \/ \E c \in CurrentValues, n \in 0..MaxHistory - 2 : \E h \in Histories(n) :
          \E helper \in {"iv_rank", "iv_percentile"} : twin = Pending(helper, <<c, h>>)
    \/ \E s \in SymbolInputs : twin = Pending("parse_option_symbol", s)
    \/ \E a \in ProbArguments :
          \E helper \in {"prob_itm", "prob_profit"} : twin = Pending(helper, a)

Done(app, analyzer) ==
    /\ twin.kind = "pending"
    /\ twin' = [twin EXCEPT !.kind = "done", !.app = app, !.analyzer = analyzer]
    /\ UNCHANGED <<bars, series, contract, prob, signal, regime, storeVars, codecVars,
                   rankVars, httpVars, cacheVars, raceVars>>

TwinRank ==
    /\ twin.helper = "iv_rank"
    /\ Done(calc_iv_rank(twin.args[1], twin.args[2]),
            calculate_iv_rank(twin.args[1], twin.args[2]))

TwinPercentile ==
    /\ twin.helper = "iv_percentile"
    /\ Done(calc_iv_percentile(twin.args[1], twin.args[2]),
            calculate_iv_percentile(twin.args[1], twin.args[2]))

TwinParse ==
    /\ twin.helper = "parse_option_symbol"
    /\ Done(parse_option_symbol(twin.args), analyzer_parse_option_symbol(twin.args))

TwinItm ==
    /\ twin.helper = "prob_itm"
    /\ LET a == twin.args
       IN  Done(prob_itm(a[1], a[2], a[3], a[5], a[6]),
                analyzer_prob_itm(a[1], a[2], a[3], a[5], a[6]))

TwinProfit ==
    /\ twin.helper = "prob_profit"
    /\ LET a == twin.args
       IN  Done(prob_profit(a[1], a[2], a[3], a[4], a[5], a[6]),
                analyzer_prob_profit(a[1], a[2], a[3], a[4], a[5], a[6]))

TwinNext ==
    \/ TwinRank
    \/ TwinPercentile
    \/ TwinParse
    \/ TwinItm
    \/ TwinProfit

InitTwins ==
    StoreInit /\ CodecIdle /\ RankIdle /\ HttpIdle /\ CacheIdle /\ ProbIdle
        /\ ScoreIdle /\ RegimeIdle /\ RaceIdle /\ BarsIdle /\ SeriesIdle /\ ContractIdle
        /\ TwinInit

SpecTwins == InitTwins /\ [][TwinNext]_vars

-----------------------------------------------------------------------------
(* Claims about the duplicated helpers                                     *)

\* C30: on the same arguments each helper of app.py returns what its
\* counterpart of options_analyzer.py returns, or raises as it does:
\* calc_iv_rank and calculate_iv_rank, calc_iv_percentile and
\* calculate_iv_percentile, and parse_option_symbol, prob_itm and prob_profit
\* of the two files.
C30_SameHelpers == twin.kind = "done" => twin.app = twin.analyzer

\* C30 witness: prob_profit was called in both files for a put with a
\* positive premium, time and volatility, and both returned the probability
\* at the breakeven strike - premium.
C30_Witness ==
    /\ twin.kind = "done"
    /\ twin.helper = "prob_profit"
    /\ twin.args = <<"put", 100, 100, 5, 30, 25>>
    /\ twin.app = NormCdf("put", 100, 95, 30, 25)
    /\ twin.analyzer = twin.app

=============================================================================
